---- MODULE Spec2Model ----
(***************************************************************************)
(* State-machine model of the OBD Drive ingestion core:                    *)
(*   - OBDReceiveDataView (api.py): routes, session cache, identity and    *)
(*     merge resolution, GET/POST handlers;                                *)
(*   - OBDCoordinator (coordinator.py): per-vehicle registry, tracked-key  *)
(*     set, creation callbacks, backfill, forget_vehicle.                  *)
(*                                                                         *)
(* Strings the code slices, slugs, lowercases or prefix-matches are        *)
(* sequences of one-character strings, so that those operations are        *)
(* computed and not assumed.                                               *)
(***************************************************************************)
EXTENDS Integers, Sequences, FiniteSets, TLC

VARIABLES
    now,                 \* wall clock read by datetime.now (seconds)
    active,              \* view._active
    ttl_seconds,         \* view._ttl_seconds
    max_sessions,        \* view._max_sessions
    sessions,            \* view._sessions, least-recently-touched first
    last_name_by_email,  \* view._last_name_by_email
    last_name_by_id,     \* view._last_name_by_id
    entry_routes,        \* view._entry_routes (+ _merge_prefs_by_entry), insertion order
    email_to_entry,      \* view._email_to_entry
    canonical_to_entry,  \* view._canonical_to_entry
    inflight,            \* POST requests suspended while their body is read
    cars,                \* coordinator.cars (and .data), per entry, insertion order
    tracked,             \* coordinator.tracked, per entry
    pending_trackers,    \* coordinator._pending_trackers, per entry
    sensor_adder,        \* coordinator._sensor_adder is set, per entry
    tracker_adder,       \* coordinator.async_add_device_tracker is set, per entry
    devices,             \* host device registry: car_id -> device name
    calls,               \* observation: creation-callback invocations since the vehicle was forgotten
    forgotten,           \* observation: vehicles forgotten and not seen since, per entry
    good_id,             \* observation: <<vehicle-id, e-mail>> -> profile id of the latest
                         \* frame with a usable name that _parse_fields, called on its
                         \* own with merge_mode none, accepted (noted by ParseFieldsNoted)
    ev                   \* observation: what the last operation did and answered

vars == <<now, active, ttl_seconds, max_sessions, sessions, last_name_by_email,
          last_name_by_id, entry_routes, email_to_entry, canonical_to_entry,
          inflight, cars, tracked, pending_trackers, sensor_adder, tracker_adder, devices,
          calls, forgotten, good_id, ev>>

viewVars == <<active, ttl_seconds, max_sessions, sessions, last_name_by_email,
              last_name_by_id, entry_routes, email_to_entry, canonical_to_entry>>

routeVars == <<entry_routes, email_to_entry, canonical_to_entry>>

nameVars == <<last_name_by_email, last_name_by_id>>

coordVars == <<cars, tracked, pending_trackers, sensor_adder, tracker_adder, devices>>

obsVars == <<calls, forgotten, good_id>>

-----------------------------------------------------------------------------
(* Bounds of the model *)

\* the clock stops advancing here
MaxTime == 3

\* invocation counters of the observation saturate here
MaxCount == 2

-----------------------------------------------------------------------------
(* Characters and strings *)

UpperLetters ==
    <<"A", "B", "C", "D", "E", "F", "G", "H", "I", "J", "K", "L", "M", "N", "O",
      "P", "Q", "R", "S", "T", "U", "V", "W", "X", "Y", "Z">>

LowerLetterSeq ==
    <<"a", "b", "c", "d", "e", "f", "g", "h", "i", "j", "k", "l", "m", "n", "o",
      "p", "q", "r", "s", "t", "u", "v", "w", "x", "y", "z">>

LowerLetters == {LowerLetterSeq[i] : i \in 1..Len(LowerLetterSeq)}

Digits == {"0", "1", "2", "3", "4", "5", "6", "7", "8", "9"}

Whitespace == {" "}

\* str.lower() on one character; "E'" stands for the accented e of "véhicule"
LowerChar(c) ==
    IF \E i \in 1..Len(UpperLetters) : UpperLetters[i] = c
    THEN LowerLetterSeq[CHOOSE i \in 1..Len(UpperLetters) : UpperLetters[i] = c]
    ELSE c

RECURSIVE Lower(_)
Lower(s) == IF s = <<>> THEN <<>> ELSE <<LowerChar(Head(s))>> \o Lower(Tail(s))

RECURSIVE LStrip(_)
LStrip(s) == IF s # <<>> /\ Head(s) \in Whitespace THEN LStrip(Tail(s)) ELSE s

RECURSIVE RStrip(_)
RStrip(s) ==
    IF s # <<>> /\ s[Len(s)] \in Whitespace THEN RStrip(SubSeq(s, 1, Len(s) - 1)) ELSE s

\* str.strip()
Strip(s) == RStrip(LStrip(s))

\* re.sub(r"\s+", " ", s)
RECURSIVE CollapseWs(_)
CollapseWs(s) ==
    IF s = <<>> THEN <<>>
    ELSE IF Head(s) \in Whitespace
         THEN <<" ">> \o CollapseWs(LStrip(Tail(s)))
         ELSE <<Head(s)>> \o CollapseWs(Tail(s))

\* s[:n]
Take(s, n) == SubSeq(s, 1, IF Len(s) < n THEN Len(s) ELSE n)

\* s.startswith(p)
StartsWith(s, p) == Len(p) <= Len(s) /\ SubSeq(s, 1, Len(p)) = p

\* s.endswith(p)
EndsWith(s, p) == Len(p) <= Len(s) /\ SubSeq(s, Len(s) - Len(p) + 1, Len(s)) = p

\* p in s
Contains(s, p) == \E i \in 1..(Len(s) - Len(p) + 1) : SubSeq(s, i, i + Len(p) - 1) = p

AllIn(s, set) == \A i \in 1..Len(s) : s[i] \in set

\* homeassistant.util.slugify: lowercase, transliterate, every run of characters
\* that are not letters or digits becomes one "_", leading and trailing "_" are
\* dropped; "" stays "" and an otherwise empty slug is "unknown"
SlugChar(c) ==
    LET l == LowerChar(c)
    IN  IF l = "E'" THEN "e"
        ELSE IF l \in LowerLetters \cup Digits THEN l ELSE "_"

RECURSIVE SlugRuns(_, _)
SlugRuns(s, prevSep) ==
    IF s = <<>> THEN <<>>
    ELSE LET c == SlugChar(Head(s))
         IN  IF c = "_"
             THEN (IF prevSep THEN <<>> ELSE <<"_">>) \o SlugRuns(Tail(s), TRUE)
             ELSE <<c>> \o SlugRuns(Tail(s), FALSE)

slugify(text) ==
    IF text = <<>> THEN <<>>
    ELSE LET runs == SlugRuns(text, TRUE)
             slug == IF runs # <<>> /\ runs[Len(runs)] = "_"
                     THEN SubSeq(runs, 1, Len(runs) - 1) ELSE runs
         IN  IF slug = <<>> THEN <<"u", "n", "k", "n", "o", "w", "n">> ELSE slug

\* hashlib.sha1(eml.encode("utf-8")).hexdigest()[:4], for the e-mails of the model
Sha1Hex4(eml) ==
    CASE eml = <<"a", "@", "x">> -> <<"e", "f", "f", "5">>
      [] eml = <<"b", "@", "x">> -> <<"8", "2", "9", "d">>
      [] eml = <<"A", "@", "x">> -> <<"2", "5", "9", "9">>
      [] eml = <<"z", "@", "x">> -> <<"3", "7", "5", "0">>
      [] OTHER -> <<"0", "0", "0", "0">>

WordVehicle == <<"v", "e", "h", "i", "c", "l", "e">>
WordVehicule == <<"v", "E'", "h", "i", "c", "u", "l", "e">>

\* _is_poor_name: empty, blank, "vehicle" / "véhicule", or ^\s*vehicle\s*\d+\s*$
_is_poor_name(name) ==
    LET s == Strip(name)
        low == Lower(s)
        rest == LStrip(SubSeq(low, Len(WordVehicle) + 1, Len(low)))
    IN  \/ name = <<>>
        \/ s = <<>>
        \/ low \in {WordVehicle, WordVehicule}
        \/ /\ StartsWith(low, WordVehicle)
           /\ rest # <<>>
           /\ AllIn(rest, Digits)

-----------------------------------------------------------------------------
(* Dictionaries: functions with a finite domain *)

EmptyDict == <<>>

DictGet(d, k, dflt) == IF k \in DOMAIN d THEN d[k] ELSE dflt

DictPut(d, k, v) == [x \in DOMAIN d \cup {k} |-> IF x = k THEN v ELSE d[x]]

DictPop(d, k) == [x \in DOMAIN d \ {k} |-> d[x]]

SeqToSet(s) == {s[i] : i \in 1..Len(s)}

RECURSIVE SeqRemove(_, _)
SeqRemove(s, x) ==
    IF s = <<>> THEN <<>>
    ELSE IF Head(s) = x THEN SeqRemove(Tail(s), x)
         ELSE <<Head(s)>> \o SeqRemove(Tail(s), x)

-----------------------------------------------------------------------------
(* Constants of const.py and the telemetry catalog *)

MERGE_MODE_NONE == "none"
MERGE_MODE_NAME == "name"
MERGE_MODE_VIN == "vin"

OBD_GPS_LAT == <<"l", "a", "t">>
OBD_GPS_LON == <<"l", "o", "n">>
ENTITY_GPS == <<"g", "p", "s">>

\* a sample of the catalog: an ordinary reading, two status signals without
\* unit, a code without full name (its label is its short name), a unitless
\* reading
OBD_CODES ==
    [c \in {"0c", "st", "fs", "zz", "nu"} |->
        CASE c = "0c" -> [shortName |-> <<"r", "p", "m">>, fullName |-> <<"R", "P", "M">>,
                          unit |-> "rpm"]
          [] c = "st" -> [shortName |-> <<"s", "t">>, fullName |-> <<"M", "o", "d", "e">>,
                          unit |-> ""]
          [] c = "fs" -> [shortName |-> <<"f", "s">>,
                          fullName |-> <<"F", "u", "e", "l", " ", "S", "t", "a", "t", "u", "s">>,
                          unit |-> ""]
          [] c = "zz" -> [shortName |-> <<"z", "z">>, fullName |-> <<>>, unit |-> "V"]
          [] c = "nu" -> [shortName |-> <<"n", "u">>, fullName |-> <<"N", "u">>,
                          unit |-> ""]]

\* get_label: labels_fr is absent, FR_BY_KEY is {} and every label is the English name
get_label(full_en) == full_en

-----------------------------------------------------------------------------
(* Values *)

NullVal == [t |-> "null", n |-> 0, s |-> ""]
NumVal(n) == [t |-> "num", n |-> n, s |-> ""]
StrVal(s) == [t |-> "str", n |-> 0, s |-> s]

\* float(s) for the raw tokens of the model; every other token does not parse
NumberTable ==
    [r \in {"48", "2", "91", "181", "2500"} |->
        CASE r = "48" -> 48 [] r = "2" -> 2 [] r = "91" -> 91 [] r = "181" -> 181
          [] r = "2500" -> 2500]

\* _parse_number: None for a missing, empty, non-finite or unparseable token
_parse_number(raw) ==
    IF raw \in DOMAIN NumberTable
    THEN [some |-> TRUE, n |-> NumberTable[raw]]
    ELSE [some |-> FALSE, n |-> 0]

\* v.strip().lower() in _NONFINITE_STR, for the raw tokens of the model
_NONFINITE_STR == {"nan", "NaN", "inf", "Inf", " nan"}

\* coordinator._is_non_finite: numbers of the model are finite
_is_non_finite(v) == v.t = "str" /\ v.s \in _NONFINITE_STR

-----------------------------------------------------------------------------
(* Routes *)

NoRoute ==
    [entry_id |-> "none", coordinator |-> "none", email |-> <<>>,
     merge_mode |-> MERGE_MODE_NONE, name_map |-> EmptyDict,
     reject_poor_name |-> TRUE, require_mapped_name |-> FALSE]

\* the coordinator constructed last: OBDCoordinator.__init__ sets view.coordinator
ViewCoordinator == "e2"

\* _parse_name_map_text over the lines of the text, each already split at its
\* separator: both the lowercased and the slugged left side map to the right side
RECURSIVE _parse_name_map_text(_)
_parse_name_map_text(lines) ==
    IF lines = <<>> THEN EmptyDict
    ELSE LET last == lines[Len(lines)]
             rest == _parse_name_map_text(SubSeq(lines, 1, Len(lines) - 1))
             left == Strip(last[1])
             right == Strip(last[2])
         IN  IF left = <<>> \/ right = <<>> THEN rest
             ELSE DictPut(DictPut(rest, Lower(left), right), slugify(left), right)

\* _lookup_canonical
_lookup_canonical(name_map, profile_name) ==
    IF profile_name = <<>> THEN <<>>
    ELSE LET low == Lower(Strip(profile_name))
             slug == slugify(profile_name)
         IN  IF DictGet(name_map, low, <<>>) # <<>> THEN name_map[low]
             ELSE DictGet(name_map, slug, <<>>)

RouteIds(routes) == {routes[i].entry_id : i \in 1..Len(routes)}

RouteOf(routes, e) ==
    IF e \in RouteIds(routes)
    THEN routes[CHOOSE i \in 1..Len(routes) : routes[i].entry_id = e]
    ELSE NoRoute

\* dict assignment: an existing key keeps its place, a new key goes last
RoutePut(routes, r) ==
    IF r.entry_id \in RouteIds(routes)
    THEN [i \in 1..Len(routes) |-> IF routes[i].entry_id = r.entry_id THEN r ELSE routes[i]]
    ELSE Append(routes, r)

RECURSIVE RoutePop(_, _)
RoutePop(routes, e) ==
    IF routes = <<>> THEN <<>>
    ELSE IF Head(routes).entry_id = e THEN RoutePop(Tail(routes), e)
         ELSE <<Head(routes)>> \o RoutePop(Tail(routes), e)

\* a route pick that falls back to the first route
PickOrFirst(routes, e2e, email) ==
    IF Lower(Strip(email)) \in DOMAIN e2e THEN RouteOf(routes, e2e[Lower(Strip(email))])
    ELSE IF routes # <<>> THEN routes[1]
    ELSE NoRoute

\* _pick_route
_pick_route(routes, e2e, email) ==
    LET key == Lower(Strip(email))
    IN  IF key # <<>> /\ key \in DOMAIN e2e THEN RouteOf(routes, e2e[key])
        ELSE IF key = <<>> /\ Len(routes) = 1 THEN routes[1]
        ELSE IF routes = <<>> /\ ViewCoordinator # "none"
             THEN [entry_id |-> "legacy", coordinator |-> ViewCoordinator, email |-> <<>>,
                   merge_mode |-> MERGE_MODE_NONE, name_map |-> EmptyDict,
                   reject_poor_name |-> TRUE, require_mapped_name |-> FALSE]
        ELSE NoRoute

\* the first canonical name found in the name maps of the routes in name mode
RECURSIVE ScanCanonical(_, _)
ScanCanonical(routes, profile_name) ==
    IF routes = <<>> THEN <<>>
    ELSE LET c == IF Head(routes).merge_mode = MERGE_MODE_NAME
                  THEN _lookup_canonical(Head(routes).name_map, profile_name)
                  ELSE <<>>
         IN  IF c # <<>> THEN c ELSE ScanCanonical(Tail(routes), profile_name)

\* the canonical name _maybe_reroute_by_canonical settles on
RerouteCanonical(routes, initial_route, profile_name) ==
    LET own == IF /\ initial_route.entry_id \in RouteIds(routes)
                  /\ initial_route.merge_mode = MERGE_MODE_NAME
               THEN _lookup_canonical(initial_route.name_map, profile_name)
               ELSE <<>>
    IN  IF own # <<>> THEN own
        ELSE IF profile_name # <<>> THEN ScanCanonical(routes, profile_name)
        ELSE <<>>

\* the owner _maybe_reroute_by_canonical settles on for a canonical name with no
\* owner yet: the initial route if it is a configured one, else the first route
NewOwner(routes, initial_route) ==
    IF initial_route.entry_id \in RouteIds(routes) THEN initial_route.entry_id
    ELSE routes[1].entry_id

\* an ownership cache that follows the latest request
RerouteToLatest(routes, c2e, initial_route, canonical, owner) ==
    [route |-> IF owner \in RouteIds(routes) THEN RouteOf(routes, owner) ELSE initial_route,
     c2e |-> DictPut(c2e, canonical, NewOwner(routes, initial_route))]

RerouteTo(routes, c2e, initial_route, canonical, owner) ==
    [route |-> IF owner \in RouteIds(routes) THEN RouteOf(routes, owner) ELSE initial_route,
     c2e |-> IF canonical \in DOMAIN c2e THEN c2e ELSE DictPut(c2e, canonical, owner)]

RerouteWith(routes, c2e, initial_route, canonical) ==
    IF canonical = <<>> THEN [route |-> initial_route, c2e |-> c2e]
    ELSE RerouteTo(routes, c2e, initial_route, canonical,
                   IF canonical \in DOMAIN c2e THEN c2e[canonical]
                   ELSE NewOwner(routes, initial_route))

\* no re-routing
KeepInitialRoute(routes, c2e, initial_route, profile_name) ==
    [route |-> initial_route, c2e |-> c2e]

\* _maybe_reroute_by_canonical: the route answered and the ownership cache after it
_maybe_reroute_by_canonical(routes, c2e, initial_route, profile_name) ==
    IF routes = <<>> THEN [route |-> initial_route, c2e |-> c2e]
    ELSE RerouteWith(routes, c2e, initial_route,
                     RerouteCanonical(routes, initial_route, profile_name))

-----------------------------------------------------------------------------
(* Requests and field decoding *)

\* A request is its parameters after dict(request.query) (GET) or after the merge
\* of body, form and query (POST): eml, session, id, name, vin are strings, lat
\* and lon raw tokens, k maps the codes of its k<code> parameters to raw tokens.
\* Parameters the model leaves out (alt, acc, speed_gps, lang, app version) are
\* absent from every request; routes are metric.

\* _extract_profile_name: the first non-blank name parameter, stripped
_extract_profile_name(q) == Strip(q.name)

VehiclePrefix == <<"V", "e", "h", "i", "c", "l", "e", " ">>

GpsMeta(full_en) == [name |-> get_label(full_en), unit |-> "deg"]

\* the decoding loop over the k<code> parameters, then the direct lat / lon
DecodedShorts(q) == {OBD_CODES[c].shortName : c \in DOMAIN q.k \cap DOMAIN OBD_CODES}

CodeOfShort(q, short) ==
    CHOOSE c \in DOMAIN q.k \cap DOMAIN OBD_CODES : OBD_CODES[c].shortName = short

LatDirect(q) ==
    LET v == _parse_number(q.lat)
    IN  IF v.some /\ -90 <= v.n /\ v.n <= 90 THEN v ELSE [some |-> FALSE, n |-> 0]

LonDirect(q) ==
    LET v == _parse_number(q.lon)
    IN  IF v.some /\ -180 <= v.n /\ v.n <= 180 THEN v ELSE [some |-> FALSE, n |-> 0]

DecodeValues(q) ==
    LET shorts == DecodedShorts(q)
                  \cup (IF LatDirect(q).some THEN {OBD_GPS_LAT} ELSE {})
                  \cup (IF LonDirect(q).some THEN {OBD_GPS_LON} ELSE {})
    IN  [sh \in shorts |->
            IF sh = OBD_GPS_LAT /\ LatDirect(q).some THEN NumVal(LatDirect(q).n)
            ELSE IF sh = OBD_GPS_LON /\ LonDirect(q).some THEN NumVal(LonDirect(q).n)
            ELSE LET raw == q.k[CodeOfShort(q, sh)]
                     val == _parse_number(raw)
                 IN  IF val.some THEN NumVal(val.n) ELSE StrVal(raw)]

DecodeMeta(q) ==
    LET shorts == DOMAIN DecodeValues(q)
    IN  [sh \in shorts |->
            IF sh \in DecodedShorts(q)
            THEN LET mc == OBD_CODES[CodeOfShort(q, sh)]
                     full_en == IF mc.fullName # <<>> THEN mc.fullName ELSE mc.shortName
                 IN  [name |-> get_label(full_en), unit |-> mc.unit]
            ELSE IF sh = OBD_GPS_LAT
                 THEN GpsMeta(<<"G", "P", "S", " ", "L", "a", "t">>)
                 ELSE GpsMeta(<<"G", "P", "S", " ", "L", "o", "n">>)]

NoSession ==
    [id |-> <<>>, last_seen |-> 0,
     profile |-> [Name |-> <<>>, Id |-> <<>>, Email |-> <<>>],
     values |-> EmptyDict, meta |-> EmptyDict]

\* the name remembered for the e-mail, else for the vehicle-id
RememberedEmailFirst(by_id, by_email, vehicle_id, eml) ==
    IF eml # <<>> /\ DictGet(by_email, eml, <<>>) # <<>> THEN by_email[eml]
    ELSE IF vehicle_id # <<>> /\ DictGet(by_id, vehicle_id, <<>>) # <<>> THEN by_id[vehicle_id]
    ELSE <<>>

\* the name remembered for the vehicle-id, else for the e-mail
Remembered(by_id, by_email, vehicle_id, eml) ==
    IF vehicle_id # <<>> /\ DictGet(by_id, vehicle_id, <<>>) # <<>> THEN by_id[vehicle_id]
    ELSE IF eml # <<>> /\ DictGet(by_email, eml, <<>>) # <<>> THEN by_email[eml]
    ELSE <<>>

\* an id that prefers the name to the canonical identity
ProfileIdByName(canonical_name, effective_name, vehicle_id, salt, session_id) ==
    IF effective_name # <<>>
    THEN IF vehicle_id # <<>>
         THEN slugify(effective_name) \o <<"_">> \o Take(vehicle_id, 4)
              \o (IF salt # <<>> THEN <<"_">> \o salt ELSE <<>>)
         ELSE slugify(effective_name) \o (IF salt # <<>> THEN <<"_">> \o salt ELSE <<>>)
    ELSE IF canonical_name # <<>> THEN slugify(canonical_name)
    ELSE IF vehicle_id # <<>>
         THEN vehicle_id \o (IF salt # <<>> THEN <<"_">> \o salt ELSE <<>>)
    ELSE <<"v", "e", "h", "_">> \o Take(session_id, 6)

\* an id that leaves the salt out when there is no vehicle-id
ProfileIdUnsalted(canonical_name, effective_name, vehicle_id, salt, session_id) ==
    IF canonical_name # <<>> THEN slugify(canonical_name)
    ELSE IF effective_name # <<>>
         THEN IF vehicle_id # <<>>
              THEN slugify(effective_name) \o <<"_">> \o Take(vehicle_id, 4)
                   \o (IF salt # <<>> THEN <<"_">> \o salt ELSE <<>>)
              ELSE slugify(effective_name)
    ELSE IF vehicle_id # <<>>
         THEN vehicle_id \o (IF salt # <<>> THEN <<"_">> \o salt ELSE <<>>)
    ELSE <<"v", "e", "h", "_">> \o Take(session_id, 6)

\* the stable id of _parse_fields (slug + optional salt)
ProfileId(canonical_name, effective_name, vehicle_id, salt, session_id) ==
    IF canonical_name # <<>> THEN slugify(canonical_name)
    ELSE IF effective_name # <<>>
         THEN IF vehicle_id # <<>>
              THEN slugify(effective_name) \o <<"_">> \o Take(vehicle_id, 4)
                   \o (IF salt # <<>> THEN <<"_">> \o salt ELSE <<>>)
              ELSE slugify(effective_name)
                   \o (IF salt # <<>> THEN <<"_">> \o salt ELSE <<>>)
    ELSE IF vehicle_id # <<>>
         THEN vehicle_id \o (IF salt # <<>> THEN <<"_">> \o salt ELSE <<>>)
    ELSE <<"v", "e", "h", "_">> \o Take(session_id, 6)

\* _parse_fields in stages; p collects the locals of the function

\* the request's own fields and the canonical identity (name-map hint, or the VIN
\* in vin mode)
ParseLocals(q, merge_mode, canonical_hint) ==
    [eml |-> Strip(q.eml),
     session_id |-> Strip(q.session),
     vehicle_id |-> Strip(q.id),
     profile_name_raw |-> Strip(CollapseWs(_extract_profile_name(q))),
     canonical_name |-> IF merge_mode = MERGE_MODE_VIN /\ Strip(q.vin) # <<>>
                        THEN Strip(q.vin) ELSE Strip(canonical_hint)]

\* the fallback to a remembered name when the payload's name is poor
ParseFallback(p, remembered) ==
    p @@ [used_fallback |-> /\ _is_poor_name(p.profile_name_raw)
                            /\ remembered # <<>>
                            /\ ~_is_poor_name(remembered),
          remembered |-> remembered]

ParseName(p) ==
    p @@ [profile_name1 |-> IF p.used_fallback THEN p.remembered ELSE p.profile_name_raw,
          placeholder |-> VehiclePrefix \o Take(p.session_id, 6)]

\* guards that let poor names through
ParseGuardsPoor(p, merge_mode, reject_poor, require_mapped) ==
    p @@ [rejected |->
              \/ p.session_id = <<>>
              \/ require_mapped /\ merge_mode = MERGE_MODE_NAME /\ p.canonical_name = <<>>,
          profile_name |-> IF p.profile_name1 = <<>> /\ p.canonical_name = <<>>
                           THEN p.placeholder ELSE p.profile_name1]

\* guards that let unmapped names through
ParseGuardsUnmapped(p, merge_mode, reject_poor, require_mapped) ==
    p @@ [rejected |->
              \/ p.session_id = <<>>
              \/ reject_poor /\ _is_poor_name(p.profile_name1) /\ p.canonical_name = <<>>,
          profile_name |-> IF p.profile_name1 = <<>> /\ p.canonical_name = <<>>
                           THEN p.placeholder ELSE p.profile_name1]

\* the guards: no session id, a poor name without canonical identity, an
\* unmapped name in strict name mode
ParseGuards(p, merge_mode, reject_poor, require_mapped) ==
    p @@ [rejected |->
              \/ p.session_id = <<>>
              \/ reject_poor /\ _is_poor_name(p.profile_name1) /\ p.canonical_name = <<>>
              \/ require_mapped /\ merge_mode = MERGE_MODE_NAME /\ p.canonical_name = <<>>,
          profile_name |-> IF p.profile_name1 = <<>> /\ p.canonical_name = <<>>
                           THEN p.placeholder ELSE p.profile_name1]

ParseDisplay(p) ==
    p @@ [display0 |-> IF p.canonical_name # <<>> THEN p.canonical_name ELSE p.profile_name]

ParseDisplayName(p) ==
    p @@ [display_name |-> IF _is_poor_name(p.display0)
                           THEN (IF p.profile_name # <<>> THEN p.profile_name
                                 ELSE p.placeholder)
                           ELSE p.display0]

ParseId(p) ==
    p @@ [profile_id |->
              ProfileId(p.canonical_name,
                        IF ~_is_poor_name(p.display_name) THEN p.display_name ELSE <<>>,
                        p.vehicle_id,
                        IF p.eml # <<>> /\ p.canonical_name = <<>> THEN Sha1Hex4(p.eml)
                        ELSE <<>>,
                        p.session_id),
          good_raw |-> ~_is_poor_name(p.profile_name_raw)]

\* the result: ok = FALSE stands for None; by_id and by_email are the
\* remembered-name tables after the call
ParseResult(p, q, t, by_id, by_email) ==
    IF p.rejected
    THEN [ok |-> FALSE, session |-> NoSession, by_id |-> by_id, by_email |-> by_email]
    ELSE [ok |-> TRUE,
          session |-> [id |-> p.session_id, last_seen |-> t,
                       profile |-> [Name |-> p.display_name, Id |-> p.profile_id,
                                    Email |-> p.eml],
                       values |-> DecodeValues(q), meta |-> DecodeMeta(q)],
          by_id |-> IF p.good_raw /\ p.vehicle_id # <<>>
                    THEN DictPut(by_id, p.vehicle_id, p.profile_name_raw) ELSE by_id,
          by_email |-> IF p.good_raw /\ p.eml # <<>> /\ ~p.used_fallback
                       THEN DictPut(by_email, p.eml, p.profile_name_raw) ELSE by_email]

ParseRemembered(p, by_id, by_email) ==
    ParseFallback(p, Remembered(by_id, by_email, p.vehicle_id, p.eml))

_parse_fields(q, t, by_id, by_email, merge_mode, canonical_hint, reject_poor, require_mapped) ==
    ParseResult(
        ParseId(ParseDisplayName(ParseDisplay(
            ParseGuards(
                ParseName(ParseRemembered(ParseLocals(q, merge_mode, canonical_hint),
                                          by_id, by_email)),
                merge_mode, reject_poor, require_mapped)))),
        q, t, by_id, by_email)

-----------------------------------------------------------------------------
(* Session cache *)

\* _cleanup_sessions: expired entries leave from the old end up to the first
\* entry still within the TTL, then the old end is cut down to max_sessions
RECURSIVE DropExpired(_, _)
DropExpired(cache, cutoff) ==
    IF cache # <<>> /\ Head(cache).last_seen <= cutoff
    THEN DropExpired(Tail(cache), cutoff)
    ELSE cache

RECURSIVE DropOver(_, _)
DropOver(cache, max) == IF Len(cache) > max THEN DropOver(Tail(cache), max) ELSE cache

\* an eviction that only cuts down to max_sessions
CleanupBySizeOnly(cache, t, ttl, max) == DropOver(cache, max)

\* an eviction that keeps the entries last seen exactly ttl ago
CleanupOlderOnly(cache, t, ttl, max) == DropOver(DropExpired(cache, t - ttl - 1), max)

_cleanup_sessions(cache, t, ttl, max) == DropOver(DropExpired(cache, t - ttl), max)

RECURSIVE CacheRemove(_, _)
CacheRemove(cache, id) ==
    IF cache = <<>> THEN <<>>
    ELSE IF Head(cache).id = id THEN CacheRemove(Tail(cache), id)
         ELSE <<Head(cache)>> \o CacheRemove(Tail(cache), id)

\* a store that leaves a session id that is already cached at its place
UpsertInPlace(cache, session) ==
    IF \E i \in 1..Len(cache) : cache[i].id = session.id
    THEN [i \in 1..Len(cache) |-> IF cache[i].id = session.id THEN session ELSE cache[i]]
    ELSE Append(cache, session)

\* _upsert_and_touch: store under the session id and move to the most recent end
_upsert_and_touch(cache, session) == Append(CacheRemove(cache, session.id), session)

CacheIds(cache) == {cache[i].id : i \in 1..Len(cache)}

-----------------------------------------------------------------------------
(* Coordinator *)

\* A coordinator's registry as the operations below thread it: cars is the
\* insertion-ordered dict car_id -> session as a sequence of [car_id, session],
\* scalls and tcalls collect the callback invocations of the operation as
\* <<car_id, short, returned normally>> and <<car_id, call site, returned normally>>.

\* What may fail during one operation: dev = the car_ids whose device-registry
\* update raises, sens = the signals whose creation callback raises, trk = the
\* tracker-creation callback raises when called for the session's vehicle,
\* trkAll = it raises when called from _try_create_all_trackers.
NoFaults == [dev |-> {}, sens |-> {}, trk |-> FALSE, trkAll |-> FALSE]

CarIds(cs) == {cs[i].car_id : i \in 1..Len(cs)}

CarSession(cs, car_id) ==
    IF car_id \in CarIds(cs)
    THEN cs[CHOOSE i \in 1..Len(cs) : cs[i].car_id = car_id].session
    ELSE NoSession

CarPut(cs, car_id, session) ==
    IF car_id \in CarIds(cs)
    THEN [i \in 1..Len(cs) |->
            IF cs[i].car_id = car_id THEN [car_id |-> car_id, session |-> session] ELSE cs[i]]
    ELSE Append(cs, [car_id |-> car_id, session |-> session])

RECURSIVE CarPop(_, _)
CarPop(cs, car_id) ==
    IF cs = <<>> THEN <<>>
    ELSE IF Head(cs).car_id = car_id THEN CarPop(Tail(cs), car_id)
         ELSE <<Head(cs)>> \o CarPop(Tail(cs), car_id)

\* f"{car_id}:{short}"
TrackedKey(car_id, short) == car_id \o <<":">> \o short

\* _is_textual_sensor; "E'" is the accented e of "état"
_is_textual_sensor(name) ==
    LET n == Lower(Strip(name))
    IN  /\ name # <<>>
        /\ \/ EndsWith(n, <<"s", "t", "a", "t", "u", "s">>)
           \/ EndsWith(n, <<"s", "t", "a", "t", "e">>)
           \/ EndsWith(n, <<"m", "o", "d", "e">>)
           \/ Contains(n, <<"E'", "t", "a", "t">>)
           \/ Contains(n, <<"s", "t", "a", "t", "u", "t">>)

\* a filter that does not look at the unit
CreatableByName(short, meta) ==
    LET name == Strip(IF meta.name # <<>> THEN meta.name ELSE short)
    IN  short \notin {OBD_GPS_LAT, OBD_GPS_LON} /\ name # short

\* _is_creatable_sensor
_is_creatable_sensor(short, meta) ==
    LET name == Strip(IF meta.name # <<>> THEN meta.name ELSE short)
    IN  /\ short \notin {OBD_GPS_LAT, OBD_GPS_LON}
        /\ ~(meta.unit = "" /\ ~_is_textual_sensor(name))
        /\ name # short

CreatableShorts(session) ==
    {sh \in DOMAIN session.meta : _is_creatable_sensor(sh, session.meta[sh])}

HasGps(session) == OBD_GPS_LAT \in DOMAIN session.values /\ OBD_GPS_LON \in DOMAIN session.values

\* get_value: the stored value, None for an unknown vehicle, an absent key or a
\* non-finite value
get_value(cs, car_id, key) ==
    LET values == CarSession(cs, car_id).values
    IN  IF car_id \notin CarIds(cs) \/ key \notin DOMAIN values THEN NullVal
        ELSE IF _is_non_finite(values[key]) THEN NullVal
        ELSE values[key]

\* get_meta
get_meta(cs, car_id) ==
    IF car_id \in CarIds(cs) THEN CarSession(cs, car_id).meta ELSE EmptyDict

\* _ensure_device_registry: the device name after the call
_ensure_device_registry(devs, car_id, profile) ==
    LET raw_name == profile.Name
        poor == \/ raw_name = <<>>
                \/ Strip(raw_name) = <<>>
                \/ Strip(raw_name) = car_id
                \/ Lower(Strip(raw_name)) \in {WordVehicle, WordVehicule}
        existing == DictGet(devs, car_id, <<>>)
        effective_name == IF poor
                          THEN (IF existing # <<>> THEN existing
                                ELSE VehiclePrefix \o Take(car_id, 6))
                          ELSE raw_name
    IN  DictPut(devs, car_id, effective_name)

\* the loop of _try_create_all_trackers over the cars from position i on; a
\* device-registry failure leaves the loop with what was marked so far
RECURSIVE TrackerLoop(_, _, _, _)
TrackerLoop(cs, i, acc, f) ==
    IF i > Len(cs) THEN acc
    ELSE LET car_id == cs[i].car_id
             key == TrackedKey(car_id, ENTITY_GPS)
         IN  IF ~HasGps(cs[i].session) \/ key \in acc.tracked
             THEN TrackerLoop(cs, i + 1, acc, f)
             ELSE IF car_id \in f.dev THEN [acc EXCEPT !.raised = TRUE]
             ELSE TrackerLoop(cs, i + 1,
                     [acc EXCEPT !.tracked = @ \cup {key},
                                 !.new = @ \cup {car_id},
                                 !.devices = _ensure_device_registry(@, car_id,
                                                 cs[i].session.profile)],
                     f)

TrackerLoopDone(c, r, f) ==
    [c EXCEPT !.tracked = r.tracked,
              !.devices = r.devices,
              !.raised = r.raised,
              !.tcalls = IF r.raised THEN @
                         ELSE @ \cup {<<car_id, "all", ~f.trkAll>> : car_id \in r.new}]

\* _try_create_all_trackers, with the adder callable
_try_create_all_trackers(c, f) ==
    TrackerLoopDone(c,
        TrackerLoop(c.cars, 1,
            [tracked |-> c.tracked, devices |-> c.devices, new |-> {}, raised |-> FALSE], f),
        f)

\* update_from_session, up to the device-registry update
SessionCarId(profile) ==
    IF profile.Id # <<>> THEN profile.Id
    ELSE slugify(IF profile.Name # <<>> THEN profile.Name
                 ELSE <<"V", "e", "h", "i", "c", "l", "e">>)

NullNonFinite(session) ==
    [session EXCEPT !.values =
        [k \in DOMAIN @ |-> IF _is_non_finite(@[k]) THEN NullVal ELSE @[k]]]

\* a store that keeps the fields of the previous session the new one lacks
StoreCarMerged(c, car_id, stored) ==
    LET old == CarSession(c.cars, car_id)
        merged == [stored EXCEPT
                      !.values = [k \in DOMAIN old.values \cup DOMAIN stored.values |->
                                     IF k \in DOMAIN stored.values THEN stored.values[k]
                                     ELSE old.values[k]],
                      !.meta = [k \in DOMAIN old.meta \cup DOMAIN stored.meta |->
                                   IF k \in DOMAIN stored.meta THEN stored.meta[k]
                                   ELSE old.meta[k]]]
    IN  [c EXCEPT !.cars = CarPut(@, car_id, merged), !.car_id = car_id, !.session = merged]

StoreCar(c, car_id, stored) ==
    [c EXCEPT !.cars = CarPut(@, car_id, stored), !.car_id = car_id, !.session = stored]

UpdateStore(c, session) ==
    StoreCar(c, SessionCarId(session.profile), NullNonFinite(session))

\* update_from_session, the tracker creation of the session's vehicle
UpdateTracker(c, tAdder, f) ==
    LET key == TrackedKey(c.car_id, ENTITY_GPS)
    IN  IF ~HasGps(c.session) \/ key \in c.tracked THEN c
        ELSE IF ~tAdder THEN [c EXCEPT !.pending = @ \cup {c.car_id}]
        ELSE IF f.trk
             THEN [c EXCEPT !.pending = @ \cup {c.car_id},
                            !.tcalls = @ \cup {<<c.car_id, "live", FALSE>>}]
             ELSE [c EXCEPT !.tracked = @ \cup {key},
                            !.tcalls = @ \cup {<<c.car_id, "live", TRUE>>}]

\* a per-signal creation that does not look at what is tracked
CreateSensorsAgain(c, car_id, session, f) ==
    [c EXCEPT !.tracked = @ \cup {TrackedKey(car_id, sh) : sh \in CreatableShorts(session) \ f.sens},
              !.scalls = @ \cup {<<car_id, sh, sh \notin f.sens>> : sh \in CreatableShorts(session)}]

\* the per-signal creation of one session: every creatable signal not yet tracked
\* is handed to the adder, and is marked tracked when the adder returns normally
CreateSensors(c, car_id, session, f) ==
    LET todo == {sh \in CreatableShorts(session) : TrackedKey(car_id, sh) \notin c.tracked}
    IN  [c EXCEPT !.tracked = @ \cup {TrackedKey(car_id, sh) : sh \in todo \ f.sens},
                  !.scalls = @ \cup {<<car_id, sh, sh \notin f.sens>> : sh \in todo}]

\* update_from_session, the device-registry update of the session's vehicle
UpdateDevice(c) ==
    [c EXCEPT !.devices = _ensure_device_registry(@, c.car_id, c.session.profile)]

UpdateSensors(c, sAdder, f) ==
    IF sAdder THEN CreateSensors(c, c.car_id, c.session, f) ELSE c

ClearPending(r) == IF r.raised THEN r ELSE [r EXCEPT !.pending = {}]

\* update_from_session, the retry of the pending trackers
UpdatePending(c, tAdder, f) ==
    IF c.pending # {} /\ tAdder THEN ClearPending(_try_create_all_trackers(c, f)) ELSE c

\* update_from_session after the session is stored: a device-registry failure
\* ends it there (the exception is logged)
UpdateRest(c, sAdder, tAdder, f) ==
    IF c.car_id \in f.dev THEN [c EXCEPT !.raised = TRUE]
    ELSE UpdatePending(UpdateSensors(UpdateTracker(UpdateDevice(c), tAdder, f), sAdder, f),
                       tAdder, f)

\* an update_from_session that updates the device registry before it stores the
\* session
UpdateDeviceFirst(c0, sAdder, tAdder, session, f) ==
    IF SessionCarId(session.profile) \in f.dev
    THEN [c0 EXCEPT !.raised = TRUE, !.car_id = SessionCarId(session.profile),
                    !.session = session]
    ELSE UpdateRest(UpdateStore(c0, session), sAdder, tAdder, f)

\* update_from_session
update_from_session(c0, sAdder, tAdder, session, f) ==
    UpdateRest(UpdateStore(c0, session), sAdder, tAdder, f)

\* the backfill loop of set_sensor_adder over the cars from position i on
RECURSIVE SensorBackfill(_, _, _)
SensorBackfill(c, i, f) ==
    IF i > Len(c.cars) THEN c
    ELSE SensorBackfill(CreateSensors(c, c.cars[i].car_id, c.cars[i].session, f), i + 1, f)

\* a forget_vehicle that drops the stored session only
ForgetSessionOnly(c, vehicle_key) == [c EXCEPT !.cars = CarPop(@, vehicle_key)]

\* forget_vehicle: the tracked keys that start with "<vehicle_key>:" go
forget_vehicle(c, vehicle_key) ==
    [c EXCEPT !.cars = CarPop(@, vehicle_key),
              !.tracked = {k \in @ : ~StartsWith(k, vehicle_key \o <<":">>)}]

-----------------------------------------------------------------------------
(* Observation of the last operation *)

NoRequest ==
    [eml |-> <<>>, session |-> <<>>, id |-> <<>>, name |-> <<>>, vin |-> <<>>,
     lat |-> "", lon |-> "", k |-> EmptyDict]

\* the keyword arguments of _parse_fields at their defaults
NoParseArgs ==
    [merge_mode |-> MERGE_MODE_NONE, canonical_hint |-> <<>>, reject_poor |-> TRUE,
     require_mapped |-> FALSE]

\* kind: the operation; status, text: the HTTP answer (0 when there is none);
\* q: the request; initial: the entry _pick_route chose; route: the entry the
\* request was attributed to; hint: the canonical identity; published: whether
\* update_from_session ran; entry, car_id: the coordinator and vehicle operated
\* on; session: the session built; scalls, tcalls: the callbacks invoked;
\* again: the vehicle had been forgotten and this is its first session since;
\* arg: the keyword arguments of a direct _parse_fields call; stored: the session
\* as _upsert_and_touch received it; raised: update_from_session ended in its
\* exception handler; evicted: the session ids the request's eviction step removed
NoEvent ==
    [kind |-> "init", status |-> 0, text |-> "", q |-> NoRequest, initial |-> "none",
     route |-> "none", hint |-> <<>>, published |-> FALSE, entry |-> "none",
     car_id |-> <<>>, session |-> NoSession, scalls |-> {}, tcalls |-> {},
     again |-> FALSE, arg |-> NoParseArgs, stored |-> NoSession, raised |-> FALSE,
     evicted |-> {}]

Event(kind) == [NoEvent EXCEPT !.kind = kind]

Entries == {"e1", "e2"}

\* the invocation counters after the callbacks of one operation; a pair is
\* <<car_id, short>>, the tracker's short is ENTITY_GPS
CountCalls(cnt, scalls, tcalls) ==
    LET pairs == {<<x[1], x[2]>> : x \in scalls} \cup {<<x[1], ENTITY_GPS>> : x \in tcalls}
        invs(p) == Cardinality({x \in scalls : <<x[1], x[2]>> = p})
                   + Cardinality({x \in tcalls : <<x[1], ENTITY_GPS>> = p})
        oks(p) == Cardinality({x \in scalls : <<x[1], x[2]>> = p /\ x[3]})
                  + Cardinality({x \in tcalls : <<x[1], ENTITY_GPS>> = p /\ x[3]})
        old(p) == DictGet(cnt, p, [inv |-> 0, ok |-> 0])
        cap(n) == IF n > MaxCount THEN MaxCount ELSE n
    IN  [p \in DOMAIN cnt \cup pairs |->
            [inv |-> cap(old(p).inv + invs(p)), ok |-> cap(old(p).ok + oks(p))]]

Ctx(e) ==
    [cars |-> cars[e], tracked |-> tracked[e], pending |-> pending_trackers[e],
     devices |-> devices, scalls |-> {}, tcalls |-> {}, raised |-> FALSE,
     car_id |-> <<>>, session |-> NoSession]

\* the coordinator variables after an operation on entry e that ended in c
StoreCtx(e, c) ==
    /\ cars' = [cars EXCEPT ![e] = c.cars]
    /\ tracked' = [tracked EXCEPT ![e] = c.tracked]
    /\ pending_trackers' = [pending_trackers EXCEPT ![e] = c.pending]
    /\ devices' = c.devices
    /\ calls' = [calls EXCEPT ![e] = CountCalls(@, c.scalls, c.tcalls)]
    /\ forgotten' = [forgotten EXCEPT ![e] = @ \ {c.car_id}]
    /\ UNCHANGED good_id

-----------------------------------------------------------------------------
(* The view's operations *)

\* set_session_limits: an argument is [given, v]; a missing or non-positive value
\* leaves the limit as it is
set_session_limits_ttl(ttl, arg) == IF arg.given /\ arg.v > 0 THEN arg.v ELSE ttl

set_session_limits_max(max, arg) == IF arg.given /\ arg.v > 0 THEN arg.v ELSE max

SetSessionLimits(ttlArg, maxArg) ==
    /\ ttl_seconds' = set_session_limits_ttl(ttl_seconds, ttlArg)
    /\ max_sessions' = set_session_limits_max(max_sessions, maxArg)
    /\ ev' = Event("set_session_limits")
    /\ UNCHANGED <<now, active, sessions, nameVars, routeVars, inflight, coordVars, obsVars>>

\* set_active
SetActive(b) ==
    /\ active' = b
    /\ ev' = Event("set_active")
    /\ UNCHANGED <<now, ttl_seconds, max_sessions, sessions, nameVars, routeVars, inflight,
                   coordVars, obsVars>>

\* the route record upsert_route stores; cfg is [email, merge_mode, lines,
\* reject_poor_name, require_mapped_name], the coordinator of an entry is its own
MakeRoute(entry_id, cfg) ==
    LET mode == IF cfg.merge_mode \in {MERGE_MODE_NONE, MERGE_MODE_NAME, MERGE_MODE_VIN}
                THEN cfg.merge_mode ELSE MERGE_MODE_NONE
    IN  [entry_id |-> entry_id, coordinator |-> entry_id,
         email |-> Lower(Strip(cfg.email)), merge_mode |-> mode,
         name_map |-> _parse_name_map_text(cfg.lines),
         reject_poor_name |-> cfg.reject_poor_name,
         require_mapped_name |-> cfg.require_mapped_name]

\* upsert_route on the routes and on the e-mail index
upsert_route_routes(routes, entry_id, cfg) == RoutePut(routes, MakeRoute(entry_id, cfg))

upsert_route_index(routes, e2e, entry_id, cfg) ==
    LET prev == RouteOf(routes, entry_id)
        e2e1 == IF entry_id \in RouteIds(routes) /\ prev.email # <<>>
                THEN DictPop(e2e, prev.email) ELSE e2e
        email_norm == Lower(Strip(cfg.email))
    IN  IF email_norm # <<>> THEN DictPut(e2e1, email_norm, entry_id) ELSE e2e1

UpsertRoute(entry_id, cfg) ==
    /\ entry_routes' = upsert_route_routes(entry_routes, entry_id, cfg)
    /\ email_to_entry' = upsert_route_index(entry_routes, email_to_entry, entry_id, cfg)
    /\ active' = TRUE
    /\ ev' = [Event("upsert_route") EXCEPT !.entry = entry_id]
    /\ UNCHANGED <<now, ttl_seconds, max_sessions, sessions, nameVars, canonical_to_entry,
                   inflight, coordVars, obsVars>>

\* a remove_route that leaves the ownership cache as it is
RemoveRouteKeepsOwners(entry_id) ==
    LET prev == RouteOf(entry_routes, entry_id)
        routes1 == RoutePop(entry_routes, entry_id)
    IN  /\ entry_routes' = routes1
        /\ email_to_entry' = IF entry_id \in RouteIds(entry_routes) /\ prev.email # <<>>
                             THEN DictPop(email_to_entry, prev.email) ELSE email_to_entry
        /\ active' = IF routes1 = <<>> THEN FALSE ELSE active
        /\ ev' = [Event("remove_route") EXCEPT !.entry = entry_id]
        /\ UNCHANGED <<now, ttl_seconds, max_sessions, sessions, nameVars, canonical_to_entry,
                       inflight, coordVars, obsVars>>

RemoveRoute(entry_id) ==
    LET prev == RouteOf(entry_routes, entry_id)
        routes1 == RoutePop(entry_routes, entry_id)
    IN  /\ entry_routes' = routes1
        /\ email_to_entry' = IF entry_id \in RouteIds(entry_routes) /\ prev.email # <<>>
                             THEN DictPop(email_to_entry, prev.email) ELSE email_to_entry
        /\ canonical_to_entry' =
               [c \in {x \in DOMAIN canonical_to_entry : canonical_to_entry[x] # entry_id} |->
                   canonical_to_entry[c]]
        /\ active' = IF routes1 = <<>> THEN FALSE ELSE active
        /\ ev' = [Event("remove_route") EXCEPT !.entry = entry_id]
        /\ UNCHANGED <<now, ttl_seconds, max_sessions, sessions, nameVars, inflight,
                       coordVars, obsVars>>

\* the clock advances between operations
Tick ==
    /\ now < MaxTime
    /\ now' = now + 1
    /\ ev' = Event("tick")
    /\ UNCHANGED <<viewVars, inflight, coordVars, obsVars>>

-----------------------------------------------------------------------------
(* GET and POST *)

\* get / post from route resolution on, over the cache as it stands: what the
\* request answers and what it leaves behind

Ignored(base, cache, c2e) ==
    [sessions |-> cache, c2e |-> c2e, by_id |-> last_name_by_id,
     by_email |-> last_name_by_email, coord |-> "none", c |-> Ctx("e1"),
     ev |-> [base EXCEPT !.text = "IGNORED"]]

\* _upsert_and_touch, then _async_publish_data to a coordinator: the cache and
\* the registry hold the same session object
Published(base, cache, c2e, pf, coord, c) ==
    [sessions |-> _upsert_and_touch(cache, c.session), c2e |-> c2e,
     by_id |-> pf.by_id, by_email |-> pf.by_email, coord |-> coord, c |-> c,
     ev |-> [base EXCEPT !.text = "OK!", !.published = TRUE, !.entry = coord,
                         !.car_id = c.car_id, !.session = c.session,
                         !.stored = pf.session, !.raised = c.raised,
                         !.scalls = c.scalls, !.tcalls = c.tcalls,
                         !.again = c.car_id \in forgotten[coord]]]

\* _upsert_and_touch, then _async_publish_data without coordinator
Unpublished(base, cache, c2e, pf) ==
    [sessions |-> _upsert_and_touch(cache, pf.session), c2e |-> c2e,
     by_id |-> pf.by_id, by_email |-> pf.by_email, coord |-> "none", c |-> Ctx("e1"),
     ev |-> [base EXCEPT !.text = "OK!", !.session = pf.session, !.stored = pf.session]]

ProcessParsed(base, f, cache, c2e, coord, pf) ==
    IF ~pf.ok THEN Ignored(base, cache, c2e)
    ELSE IF coord \in Entries
    THEN Published(base, cache, c2e, pf, coord,
                   update_from_session(Ctx(coord), sensor_adder[coord], tracker_adder[coord],
                                       pf.session, f))
    ELSE Unpublished(base, cache, c2e, pf)

ProcessHinted(base, q, f, cache, c2e, route, hint) ==
    ProcessParsed([base EXCEPT !.hint = hint], f, cache, c2e, route.coordinator,
                  _parse_fields(q, now, last_name_by_id, last_name_by_email, route.merge_mode,
                                hint, route.reject_poor_name, route.require_mapped_name))

ProcessRouted(base, q, f, cache, rr) ==
    IF rr.route.entry_id = "none"
    THEN Ignored([base EXCEPT !.route = "none"], cache, rr.c2e)
    ELSE ProcessHinted([base EXCEPT !.route = rr.route.entry_id], q, f, cache, rr.c2e, rr.route,
                       IF rr.route.merge_mode = MERGE_MODE_NAME
                       THEN _lookup_canonical(rr.route.name_map, _extract_profile_name(q))
                       ELSE <<>>)

ProcessPicked(q, f, cache, route0) ==
    ProcessRouted([Event("request") EXCEPT !.status = 200, !.q = q,
                                           !.initial = route0.entry_id,
                                           !.evicted = CacheIds(sessions) \ CacheIds(cache)],
                  q, f, cache,
                  _maybe_reroute_by_canonical(entry_routes, canonical_to_entry, route0,
                                              _extract_profile_name(q)))

Process(q, f, cache) ==
    ProcessPicked(q, f, cache, _pick_route(entry_routes, email_to_entry, Strip(q.eml)))

\* _parse_fields called on its own: the session it returns (or None) and the
\* names it remembers
ParseCall(q, a) ==
    LET pf == _parse_fields(q, now, last_name_by_id, last_name_by_email, a.merge_mode,
                            a.canonical_hint, a.reject_poor, a.require_mapped)
    IN  /\ last_name_by_id' = pf.by_id
        /\ last_name_by_email' = pf.by_email
        /\ ev' = [Event("parse") EXCEPT !.q = q, !.arg = a, !.hint = a.canonical_hint,
                                        !.text = IF pf.ok THEN "session" ELSE "None",
                                        !.session = pf.session]
        /\ UNCHANGED <<now, active, ttl_seconds, max_sessions, sessions, routeVars, inflight,
                       coordVars, calls, forgotten>>

ParseFields(q, a) == ParseCall(q, a) /\ UNCHANGED good_id

\* the same call, with the observation noting the profile id of an accepted
\* frame that has a usable name, a vehicle-id and no canonical identity
ParseFieldsNoted(q, a) ==
    LET pf == _parse_fields(q, now, last_name_by_id, last_name_by_email, a.merge_mode,
                            a.canonical_hint, a.reject_poor, a.require_mapped)
    IN  /\ ParseCall(q, a)
        /\ good_id' = IF /\ pf.ok /\ a.merge_mode = MERGE_MODE_NONE
                          /\ Strip(a.canonical_hint) = <<>> /\ Strip(q.id) # <<>>
                          /\ ~_is_poor_name(Strip(CollapseWs(_extract_profile_name(q))))
                       THEN DictPut(good_id, <<Strip(q.id), Strip(q.eml)>>,
                                    pf.session.profile.Id)
                       ELSE good_id

\* the state after Process answered r
Answer(kind, r) ==
    /\ sessions' = r.sessions
    /\ canonical_to_entry' = r.c2e
    /\ last_name_by_id' = r.by_id
    /\ last_name_by_email' = r.by_email
    /\ ev' = [r.ev EXCEPT !.kind = kind]
    /\ IF r.coord \in Entries
       THEN StoreCtx(r.coord, r.c)
       ELSE UNCHANGED <<cars, tracked, pending_trackers, devices, obsVars>>
    /\ UNCHANGED <<now, active, ttl_seconds, max_sessions, entry_routes, email_to_entry,
                   sensor_adder, tracker_adder>>

NotFound(kind, q) ==
    /\ ev' = [Event(kind) EXCEPT !.status = 404, !.text = "Not Found", !.q = q]
    /\ UNCHANGED <<now, viewVars, inflight, coordVars, obsVars>>

\* a get that does not look at the active flag
GetAlways(q, f) ==
    /\ Answer("get", Process(q, f,
                  _cleanup_sessions(sessions, now, ttl_seconds, max_sessions)))
    /\ UNCHANGED inflight

\* get: nothing suspends between the eviction and the publish
Get(q, f) ==
    IF ~active THEN NotFound("get", q)
    ELSE /\ Answer("get", Process(q, f,
                       _cleanup_sessions(sessions, now, ttl_seconds, max_sessions)))
         /\ UNCHANGED inflight

\* post, up to the first await: the eviction, then the body is read
PostBegin(q) ==
    IF ~active THEN NotFound("post", q)
    ELSE /\ q \notin inflight
         /\ inflight' = inflight \cup {q}
         /\ sessions' = _cleanup_sessions(sessions, now, ttl_seconds, max_sessions)
         /\ ev' = [Event("post_begin") EXCEPT
                      !.q = q, !.evicted = CacheIds(sessions) \ CacheIds(sessions')]
         /\ UNCHANGED <<now, active, ttl_seconds, max_sessions, nameVars, routeVars,
                        coordVars, obsVars>>

\* post, once the body is read
PostFinish(q, f) ==
    /\ q \in inflight
    /\ inflight' = inflight \ {q}
    /\ Answer("post", Process(q, f, sessions))

\* head
HeadRequest ==
    /\ ev' = [Event("head") EXCEPT !.status = 200]
    /\ UNCHANGED <<now, viewVars, inflight, coordVars, obsVars>>

-----------------------------------------------------------------------------
(* The coordinator's operations *)

\* set_sensor_adder: registers the adder and backfills
SetSensorAdder(e, f) ==
    LET c == SensorBackfill(Ctx(e), 1, f)
    IN  /\ sensor_adder' = [sensor_adder EXCEPT ![e] = TRUE]
        /\ StoreCtx(e, c)
        /\ ev' = [Event("set_sensor_adder") EXCEPT !.entry = e, !.scalls = c.scalls]
        /\ UNCHANGED <<now, viewVars, inflight, tracker_adder>>

\* set_device_tracker_adder: registers the adder and backfills
SetDeviceTrackerAdder(e, f) ==
    LET c == _try_create_all_trackers(Ctx(e), f)
    IN  /\ tracker_adder' = [tracker_adder EXCEPT ![e] = TRUE]
        /\ StoreCtx(e, c)
        /\ ev' = [Event("set_device_tracker_adder") EXCEPT !.entry = e, !.tcalls = c.tcalls]
        /\ UNCHANGED <<now, viewVars, inflight, sensor_adder>>

\* forget_vehicle; the observation restarts the counters of that vehicle
ForgetVehicle(e, vehicle_key) ==
    LET c == forget_vehicle(Ctx(e), vehicle_key)
    IN  /\ cars' = [cars EXCEPT ![e] = c.cars]
        /\ tracked' = [tracked EXCEPT ![e] = c.tracked]
        /\ calls' = [calls EXCEPT ![e] = [p \in {x \in DOMAIN @ : x[1] # vehicle_key} |-> @[p]]]
        /\ forgotten' = [forgotten EXCEPT ![e] = @ \cup {vehicle_key}]
        /\ UNCHANGED good_id
        /\ ev' = [Event("forget_vehicle") EXCEPT !.entry = e, !.car_id = vehicle_key]
        /\ UNCHANGED <<now, viewVars, inflight, pending_trackers, sensor_adder,
                       tracker_adder, devices>>

-----------------------------------------------------------------------------
(* Inputs of the model *)

EmailA == <<"a", "@", "x">>
EmailB == <<"b", "@", "x">>
EmailZ == <<"z", "@", "x">>

NameBob == <<"B", "o", "b">>
NameRob == <<"R", "o", "b">>
NamePoor == <<"V", "e", "h", "i", "c", "l", "e", " ", "4", "2">>

Sid1 == <<"s", "1">>
Sid2 == <<"s", "2">>
SidDigits == <<"4", "2">>

NameAnn == <<"A", "n", "n">>
IdLong == <<"v", "e", "h", "1", "2">>
Vin1 == <<"V", "1">>

Req(eml, session, id, name) ==
    [NoRequest EXCEPT !.eml = eml, !.session = session, !.id = id, !.name = name]

Cfg(email, mode, lines, reject_poor, require_mapped) ==
    [email |-> email, merge_mode |-> mode, lines |-> lines,
     reject_poor_name |-> reject_poor, require_mapped_name |-> require_mapped]

Arg(v) == [given |-> TRUE, v |-> v]
NoArg == [given |-> FALSE, v |-> 0]

-----------------------------------------------------------------------------
(* Initial states *)

\* OBDReceiveDataView.__init__ with the limits given, then OBDCoordinator.__init__
\* of every entry
Constructed(ttl, max) ==
    /\ now = 0
    /\ active = TRUE
    /\ ttl_seconds = ttl
    /\ max_sessions = max
    /\ sessions = <<>>
    /\ last_name_by_email = EmptyDict
    /\ last_name_by_id = EmptyDict
    /\ canonical_to_entry = EmptyDict
    /\ inflight = {}
    /\ cars = [e \in Entries |-> <<>>]
    /\ tracked = [e \in Entries |-> {}]
    /\ pending_trackers = [e \in Entries |-> {}]
    /\ sensor_adder = [e \in Entries |-> FALSE]
    /\ tracker_adder = [e \in Entries |-> FALSE]
    /\ devices = EmptyDict
    /\ calls = [e \in Entries |-> EmptyDict]
    /\ forgotten = [e \in Entries |-> {}]
    /\ good_id = EmptyDict
    /\ ev = NoEvent

\* the routes after upsert_route(entry_id, cfg) for each <<entry_id, cfg>> of setup
RECURSIVE RoutesAfter(_)
RoutesAfter(setup) ==
    IF setup = <<>> THEN <<>>
    ELSE LET last == setup[Len(setup)]
         IN  upsert_route_routes(RoutesAfter(SubSeq(setup, 1, Len(setup) - 1)), last[1], last[2])

RECURSIVE IndexAfter(_)
IndexAfter(setup) ==
    IF setup = <<>> THEN EmptyDict
    ELSE LET last == setup[Len(setup)]
             before == SubSeq(setup, 1, Len(setup) - 1)
         IN  upsert_route_index(RoutesAfter(before), IndexAfter(before), last[1], last[2])

Configured(setup) ==
    /\ entry_routes = RoutesAfter(setup)
    /\ email_to_entry = IndexAfter(setup)

-----------------------------------------------------------------------------
(* Session cache: one route, sessions come and go while the clock advances *)

CacheRequests == {Req(EmailA, sid, <<>>, NameBob) : sid \in {Sid1, Sid2}}

\* the arguments set_session_limits is called with: <<ttl_seconds, max_sessions>>
LimitArgs ==
    {<<Arg(1), NoArg>>, <<Arg(2), NoArg>>, <<NoArg, Arg(1)>>, <<NoArg, Arg(2)>>,
     <<Arg(0), Arg(0)>>}

InitCache ==
    /\ Constructed(2, 1)
    /\ Configured(<< <<"e1", Cfg(EmailA, MERGE_MODE_NAME, << <<NameBob, NameRob>> >>,
                                 TRUE, FALSE)>> >>)

NextCache ==
    \/ \E q \in CacheRequests : Get(q, NoFaults)
    \/ \E q \in CacheRequests : PostBegin(q)
    \/ \E q \in CacheRequests : PostFinish(q, NoFaults)
    \/ \E a \in LimitArgs : SetSessionLimits(a[1], a[2])
    \/ \E b \in BOOLEAN : SetActive(b)
    \/ HeadRequest
    \/ Tick

SpecCache == InitCache /\ [][NextCache]_vars

\* the age of a cached session
Age(session) == now - session.last_seen

\* C1: in every reachable state the session cache holds at most max_sessions
\* entries
C1_CacheWithinMax == Len(sessions) <= max_sessions

\* C2 as stated: in every reachable state no cached session is older than
\* ttl_seconds
C2_NeverStale == \A i \in 1..Len(sessions) : Age(sessions[i]) <= ttl_seconds

\* the last operation was a request that ran the eviction step: a GET or the
\* start of a POST on an active endpoint
Evicted == ev.kind = "post_begin" \/ (ev.kind = "get" /\ ev.status = 200)

\* C2 amended: right after a request on an active endpoint ran its eviction
\* step, every cached session was touched less than ttl_seconds ago
C2_FreshAfterEviction ==
    Evicted => \A i \in 1..Len(sessions) : Age(sessions[i]) < ttl_seconds

\* a request has just evicted: a session is gone and another one stays
C2_Witness ==
    /\ ev.kind = "post_begin"
    /\ now >= ttl_seconds
    /\ Len(sessions) = 1
    /\ sessions[1].id # Strip(ev.q.session)
    /\ sessions[1].last_seen > 0

\* C9: a GET or a POST arriving while the endpoint is inactive is answered 404
\* and changes neither the cache, the limits, the remembered names, the routes,
\* the ownership cache nor any coordinator
C9_InactiveNotFound ==
    [][(~active /\ ev'.kind \in {"get", "post"} /\ inflight' = inflight)
          => (ev'.status = 404 /\ UNCHANGED <<now, viewVars, coordVars, obsVars>>)]_vars

\* an inactive endpoint has answered 404 while an expired session sat in the cache
C9_Witness ==
    /\ ~active
    /\ ev.kind \in {"get", "post"}
    /\ ev.status = 404
    /\ \E i \in 1..Len(sessions) : Age(sessions[i]) >= ttl_seconds
    /\ Strip(ev.q.session) \notin CacheIds(sessions)

-----------------------------------------------------------------------------
(* Registry: one route without e-mail; two vehicles of the same profile name *)
(* whose client-supplied vehicle ids are "a" and "a:x"; the creation         *)
(* callbacks come, fail and succeed; vehicles are forgotten                  *)

IdA == <<"a">>
IdAX == <<"a", ":", "x">>

\* the car_ids _parse_fields derives for the two vehicles
CarA == <<"b", "o", "b", "_", "a">>
CarAX == <<"b", "o", "b", "_", "a", ":", "x">>

Rpm == <<"r", "p", "m">>

\* a frame with an engine reading, with or without a GPS fix
Frame(id, gps) ==
    [Req(<<>>, Sid1, id, NameBob) EXCEPT
        !.k = [c \in {"0c"} |-> "2500"],
        !.lat = IF gps THEN "48" ELSE "",
        !.lon = IF gps THEN "2" ELSE ""]

CoordRequests == {Frame(IdA, FALSE), Frame(IdA, TRUE), Frame(IdAX, TRUE)}

\* the per-signal creation callback raises
SensorFails == [NoFaults EXCEPT !.sens = {Rpm}]

\* the tracker-creation callback raises when update_from_session calls it for the
\* session's vehicle
TrackerFails == [NoFaults EXCEPT !.trk = TRUE]

\* the tracker-creation callback raises when _try_create_all_trackers calls it
BackfillFails == [NoFaults EXCEPT !.trkAll = TRUE]

InitCoord ==
    /\ Constructed(2, 2)
    /\ Configured(<< <<"e1", Cfg(<<>>, MERGE_MODE_NONE, <<>>, FALSE, FALSE)>> >>)

NextCoord ==
    \/ \E q \in CoordRequests, f \in {NoFaults, SensorFails, TrackerFails} : Get(q, f)
    \/ \E f \in {NoFaults, SensorFails} : SetSensorAdder("e1", f)
    \/ \E f \in {NoFaults, BackfillFails} : SetDeviceTrackerAdder("e1", f)
    \/ \E k \in {CarA, CarAX} : ForgetVehicle("e1", k)

SpecCoord == InitCoord /\ [][NextCoord]_vars

\* the invocation counters of a (vehicle, signal) pair since the vehicle was
\* last forgotten
Counted(e, car_id, short) == DictGet(calls[e], <<car_id, short>>, [inv |-> 0, ok |-> 0])

\* C3: between two forget_vehicle calls for a vehicle, the per-signal creation
\* callback returns normally at most once for each (vehicle, signal) pair
C3_SensorAtMostOnce ==
    \A e \in Entries : \A p \in DOMAIN calls[e] :
        p[2] # ENTITY_GPS => calls[e][p].ok <= 1

\* C4: until the vehicle is forgotten, the tracker-creation callback is invoked
\* exactly once for a vehicle with a GPS fix: never twice, and once as soon as
\* the vehicle is stored with its fix and the callback is registered
C4_TrackerExactlyOnce ==
    \A e \in Entries :
        /\ \A p \in DOMAIN calls[e] : p[2] = ENTITY_GPS => calls[e][p].inv <= 1
        /\ \A i \in 1..Len(cars[e]) :
               HasGps(cars[e][i].session) /\ tracker_adder[e]
                   => Counted(e, cars[e][i].car_id, ENTITY_GPS).inv = 1

\* the signals a tracked key can be about
Signals == {OBD_CODES[c].shortName : c \in DOMAIN OBD_CODES} \cup {ENTITY_GPS}

Invoked(calls_made, car_id, short) ==
    \E x \in calls_made : x[1] = car_id /\ (short = ENTITY_GPS \/ x[2] = short)

\* C5: from forget_vehicle(car_id) until the next accepted session of car_id the
\* registry holds neither a session nor a tracked marker of car_id, and that
\* next session hands every creatable signal to the registered per-signal
\* callback again, and the vehicle to the registered tracker callback again if
\* the session carries a GPS fix
C5_ForgottenIsNew ==
    /\ \A e \in Entries : \A k \in forgotten[e] :
           /\ k \notin CarIds(cars[e])
           /\ \A sh \in Signals : TrackedKey(k, sh) \notin tracked[e]
    /\ (ev.published /\ ev.again) =>
           /\ sensor_adder[ev.entry] =>
                  \A sh \in CreatableShorts(ev.session) : Invoked(ev.scalls, ev.car_id, sh)
           /\ (tracker_adder[ev.entry] /\ HasGps(ev.session)) =>
                  Invoked(ev.tcalls, ev.car_id, ENTITY_GPS)

\* a vehicle that had its entities was forgotten, and its next session, with
\* a GPS fix, has had both callbacks invoked again
C5_Witness ==
    /\ ev.published /\ ev.again
    /\ sensor_adder[ev.entry] /\ tracker_adder[ev.entry]
    /\ HasGps(ev.session)
    /\ Invoked(ev.scalls, ev.car_id, Rpm)
    /\ Invoked(ev.tcalls, ev.car_id, ENTITY_GPS)
    /\ Counted(ev.entry, ev.car_id, Rpm).ok = 1

-----------------------------------------------------------------------------
(* Routing: two entries are set up, reconfigured and removed while frames   *)
(* arrive under their e-mails and under an unknown one, with a mapped name  *)
(* or a poor one                                                            *)

EmailOf(entry_id) == IF entry_id = "e1" THEN EmailA ELSE EmailB

\* the name map "Bob = Rob"
MapBobRob == << <<NameBob, NameRob>> >>

\* the options an entry is set up with: no merge, or merge by name with the
\* map; rejecting poor names, or requiring a mapped name
RouteConfigs(entry_id) ==
    {Cfg(EmailOf(entry_id), MERGE_MODE_NONE, <<>>, TRUE, FALSE),
     Cfg(EmailOf(entry_id), MERGE_MODE_NAME, MapBobRob, TRUE, FALSE),
     Cfg(EmailOf(entry_id), MERGE_MODE_NAME, MapBobRob, FALSE, TRUE)}

RouteRequests ==
    {Req(eml, Sid1, <<>>, name) : eml \in {EmailA, EmailB, EmailZ}, name \in {NameBob, NamePoor}}

InitRoute ==
    /\ Constructed(2, 2)
    /\ Configured(<<>>)

\* the entries are set up before the first frame arrives
SetUpRoute(entry_id, cfg) ==
    /\ ev.kind \in {"init", "upsert_route"}
    /\ UpsertRoute(entry_id, cfg)

NextRoute ==
    \/ \E e \in Entries : \E cfg \in RouteConfigs(e) : SetUpRoute(e, cfg)
    \/ \E e \in Entries : RemoveRoute(e)
    \/ \E q \in RouteRequests : Get(q, NoFaults)

SpecRoute == InitRoute /\ [][NextRoute]_vars

\* e is the event of a GET or POST that reached route resolution
Handled(e) == e.kind \in {"get", "post"} /\ e.status = 200

\* the route a handled request was attributed to is one of the configured ones
Attributed(e) == e.route \in RouteIds(entry_routes)

\* the canonical identity of a handled request: the name-map hint, or the VIN in
\* vin mode
CanonicalIdentity(e) ==
    IF RouteOf(entry_routes, e.route).merge_mode = MERGE_MODE_VIN /\ Strip(e.q.vin) # <<>>
    THEN Strip(e.q.vin)
    ELSE Strip(e.hint)

\* the name of q is poor and no usable name is remembered for its vehicle id or
\* e-mail
PoorAfterFallback(q) ==
    /\ _is_poor_name(Strip(CollapseWs(_extract_profile_name(q))))
    /\ _is_poor_name(Remembered(last_name_by_id, last_name_by_email, Strip(q.id), Strip(q.eml)))

\* a rejected frame: answered "IGNORED", nothing enters the cache, no
\* update_from_session, no registry changes
Rejected(e) == e.text = "IGNORED" /\ ~e.published

NothingStored ==
    /\ SeqToSet(sessions') \subseteq SeqToSet(sessions)
    /\ UNCHANGED <<coordVars, obsVars>>

\* C6: on a route with reject_poor_name set, a frame whose name is poor after
\* fallback and that has no canonical identity is answered "IGNORED", does not
\* enter the session cache and changes no registry
C6_PoorNameRejected ==
    [][(/\ Handled(ev') /\ Attributed(ev')
        /\ RouteOf(entry_routes, ev'.route).reject_poor_name
        /\ PoorAfterFallback(ev'.q)
        /\ CanonicalIdentity(ev') = <<>>)
          => (Rejected(ev') /\ NothingStored)]_vars

\* a poor name with nothing remembered has been rejected on such a route
C6_Witness ==
    /\ Handled(ev) /\ Attributed(ev)
    /\ RouteOf(entry_routes, ev.route).reject_poor_name
    /\ ~RouteOf(entry_routes, ev.route).require_mapped_name
    /\ PoorAfterFallback(ev.q)
    /\ ev.text = "IGNORED"

Strict(route) == route.require_mapped_name /\ route.merge_mode = MERGE_MODE_NAME

\* C7: on a route with require_mapped_name set and merge_mode = name, a frame
\* with no canonical identity is answered "IGNORED" and is neither cached nor
\* published; a frame with a canonical identity (and a session id) is accepted
C7_UnmappedRejected ==
    [][(Handled(ev') /\ Attributed(ev') /\ Strict(RouteOf(entry_routes, ev'.route)))
          => IF CanonicalIdentity(ev') = <<>>
             THEN Rejected(ev') /\ NothingStored
             ELSE Strip(ev'.q.session) # <<>> => (ev'.text = "OK!" /\ ev'.published)]_vars

\* a frame without canonical identity has been rejected on a strict route that
\* does not reject poor names
C7_Witness ==
    /\ Handled(ev) /\ Attributed(ev)
    /\ Strict(RouteOf(entry_routes, ev.route))
    /\ ~RouteOf(entry_routes, ev.route).reject_poor_name
    /\ ev.hint = <<>>
    /\ ev.text = "IGNORED"

RouteEmails == {entry_routes[i].email : i \in 1..Len(entry_routes)}

\* the e-mail of q is no configured route's (an absent e-mail matches the route
\* when there is exactly one)
Unmatched(q) ==
    /\ Lower(Strip(q.eml)) \notin RouteEmails
    /\ ~(Strip(q.eml) = <<>> /\ Len(entry_routes) = 1)

MappedName(q) == ScanCanonical(entry_routes, _extract_profile_name(q))

BothMap(name, c) ==
    /\ Len(entry_routes) = 2
    /\ c # <<>>
    /\ \A i \in 1..2 :
           /\ entry_routes[i].merge_mode = MERGE_MODE_NAME
           /\ _lookup_canonical(entry_routes[i].name_map, name) = c

\* C10: with two routes in name mode that map a profile name to the same
\* canonical name, a frame with that name under either route's e-mail is
\* published to the coordinator of the route that owns the canonical name (the
\* route of the first contact) under the car_id of the canonical name, and the
\* owner stays the same while both routes are configured
C10_SameOwnerSameCar ==
    [][/\ \A c \in {NameRob} :
            (/\ Handled(ev')
             /\ BothMap(_extract_profile_name(ev'.q), c)
             /\ Lower(Strip(ev'.q.eml)) \in DOMAIN email_to_entry
             /\ Strip(ev'.q.session) # <<>>)
               => /\ ev'.published
                  /\ ev'.entry = DictGet(canonical_to_entry, c,
                                         email_to_entry[Lower(Strip(ev'.q.eml))])
                  /\ DictGet(canonical_to_entry', c, "none") = ev'.entry
                  /\ ev'.car_id = slugify(c)
       /\ \A c \in DOMAIN canonical_to_entry :
            RouteIds(entry_routes') = RouteIds(entry_routes)
               => (c \in DOMAIN canonical_to_entry'
                   /\ canonical_to_entry'[c] = canonical_to_entry[c])]_vars

\* a frame that arrived under one route's e-mail has been published to the
\* other route's coordinator, the owner of the canonical name
C10_Witness ==
    /\ Handled(ev) /\ ev.published
    /\ BothMap(_extract_profile_name(ev.q), NameRob)
    /\ Lower(Strip(ev.q.eml)) \in DOMAIN email_to_entry
    /\ ev.entry # email_to_entry[Lower(Strip(ev.q.eml))]
    /\ ev.entry = DictGet(canonical_to_entry, NameRob, "none")
    /\ ev.car_id = slugify(NameRob)

\* the route _pick_route gives the request q
InitialRoute(q) == _pick_route(entry_routes, email_to_entry, Strip(q.eml))

\* the canonical name the profile name of q resolves to: through the initial
\* route's own map or, failing that, through the map of any route in name mode
ResolvedName(q) == RerouteCanonical(entry_routes, InitialRoute(q), _extract_profile_name(q))

Accepted(e) == Handled(e) /\ e.text = "OK!"

\* C11: when the profile name of an accepted frame resolves to a canonical name
\* through the initial route's map or another route's map, the profile id of
\* the session is the slug of that canonical name
C11_ResolvedNameIsId ==
    (Accepted(ev) /\ entry_routes # <<>> /\ ResolvedName(ev.q) # <<>>)
        => ev.session.profile.Id = slugify(ResolvedName(ev.q))

\* C13: a request whose initial route is a configured route with merge policy
\* none or vin stays attributed to that route, and is published to its
\* coordinator if it is published
C13_RerouteOnlyInNameMode ==
    (Handled(ev) /\ ev.initial \in RouteIds(entry_routes)
        /\ RouteOf(entry_routes, ev.initial).merge_mode # MERGE_MODE_NAME)
        => (ev.route = ev.initial /\ (ev.published => ev.entry = ev.initial))

-----------------------------------------------------------------------------
(* Ownership of canonical names while routes are reconfigured *)

\* the first entry goes between no merging and merging by name, the second
\* merges by name
OwnerConfigs(entry_id) ==
    IF entry_id = "e1"
    THEN {Cfg(EmailA, MERGE_MODE_NONE, <<>>, TRUE, FALSE),
          Cfg(EmailA, MERGE_MODE_NAME, MapBobRob, TRUE, FALSE)}
    ELSE {Cfg(EmailB, MERGE_MODE_NAME, MapBobRob, TRUE, FALSE)}

OwnerRequests == {Req(eml, Sid1, <<>>, NameBob) : eml \in {EmailA, EmailB}}

InitOwner ==
    /\ Constructed(2, 2)
    /\ Configured(<<>>)

NextOwner ==
    \/ \E e \in Entries : \E cfg \in OwnerConfigs(e) : UpsertRoute(e, cfg)
    \/ \E e \in Entries : RemoveRoute(e)
    \/ \E q \in OwnerRequests : Get(q, NoFaults)

SpecOwner == InitOwner /\ [][NextOwner]_vars

\* C12: a canonical name that has an owner keeps it through every request and
\* every upsert_route; it loses it only in a remove_route of the owning route,
\* which leaves the name without owner
C12_OwnerSticky ==
    [][\A c \in DOMAIN canonical_to_entry :
           IF ev'.kind = "remove_route" /\ ev'.entry = canonical_to_entry[c]
           THEN c \notin DOMAIN canonical_to_entry'
           ELSE c \in DOMAIN canonical_to_entry'
                /\ canonical_to_entry'[c] = canonical_to_entry[c]]_vars

\* a name owned by one route although a request for it just came in under the
\* e-mail of the other route, which maps it too
C12_Witness ==
    /\ Accepted(ev)
    /\ ev.initial \in RouteIds(entry_routes)
    /\ _lookup_canonical(RouteOf(entry_routes, ev.initial).name_map,
                         _extract_profile_name(ev.q)) = NameRob
    /\ DictGet(canonical_to_entry, NameRob, "none") \in RouteIds(entry_routes) \ {ev.initial}

-----------------------------------------------------------------------------
(* Identity resolution: _parse_fields over bounded inputs *)

PlainArgs(reject_poor) == [NoParseArgs EXCEPT !.reject_poor = reject_poor]

VinArgs == [NoParseArgs EXCEPT !.merge_mode = MERGE_MODE_VIN]

MappedArgs == [NoParseArgs EXCEPT !.merge_mode = MERGE_MODE_NAME, !.canonical_hint = NameRob]

\* frames with a usable or a poor name, no canonical identity
NamedInputs ==
    {<<Req(eml, Sid1, id, name), PlainArgs(TRUE)>> :
        eml \in {<<>>, EmailA, EmailB}, id \in {<<>>, IdLong},
        name \in {NameBob, NameAnn, NamePoor}}

\* frames with a canonical identity: a VIN in vin mode, a name-map hit in name mode
CanonicalInputs ==
    {<<[Req(eml, sid, id, name) EXCEPT !.vin = Vin1], a>> :
        eml \in {EmailA, EmailB}, sid \in {Sid1, SidDigits}, id \in {<<>>, IdLong},
        name \in {NameBob, NamePoor}, a \in {VinArgs, MappedArgs}}

\* frames without a usable name on a route that does not reject them
NamelessInputs ==
    {<<Req(eml, sid, id, name), PlainArgs(FALSE)>> :
        eml \in {<<>>, EmailA}, sid \in {Sid1, SidDigits}, id \in {<<>>, IdLong},
        name \in {<<>>, NamePoor}}

ParseInputs == NamedInputs \cup CanonicalInputs \cup NamelessInputs

InitParse ==
    /\ Constructed(2, 2)
    /\ Configured(<<>>)

NextParse == \E x \in ParseInputs : ParseFields(x[1], x[2])

SpecParse == InitParse /\ [][NextParse]_vars

\* e is the event of a _parse_fields call that returned a session
Parsed(e) == e.kind = "parse" /\ e.text = "session"

\* the fields of the request as _parse_fields reads them
RawName(q) == Strip(CollapseWs(_extract_profile_name(q)))
VehicleId(q) == Strip(q.id)
Eml(q) == Strip(q.eml)

\* the canonical identity of a _parse_fields call
ParseCanonical(e) ==
    IF e.arg.merge_mode = MERGE_MODE_VIN /\ Strip(e.q.vin) # <<>> THEN Strip(e.q.vin)
    ELSE Strip(e.arg.canonical_hint)

\* C14: when the incoming name is poor (and no canonical identity replaces the
\* name), the name of the session is the one remembered for the vehicle-id if
\* there is one, otherwise the one remembered for the e-mail; a usable incoming
\* name of an accepted frame becomes the remembered name of its vehicle-id and
\* of its e-mail, nothing else is remembered, and no remembered name is poor
C14_FallbackById ==
    [][ev'.kind = "parse" =>
        /\ (Parsed(ev') /\ _is_poor_name(RawName(ev'.q)) /\ ParseCanonical(ev') = <<>>) =>
              IF VehicleId(ev'.q) \in DOMAIN last_name_by_id \ {<<>>}
              THEN ev'.session.profile.Name = last_name_by_id[VehicleId(ev'.q)]
              ELSE (Eml(ev'.q) \in DOMAIN last_name_by_email \ {<<>>})
                      => ev'.session.profile.Name = last_name_by_email[Eml(ev'.q)]
        /\ IF Parsed(ev') /\ ~_is_poor_name(RawName(ev'.q))
           THEN /\ last_name_by_id' =
                      IF VehicleId(ev'.q) = <<>> THEN last_name_by_id
                      ELSE DictPut(last_name_by_id, VehicleId(ev'.q), RawName(ev'.q))
                /\ last_name_by_email' =
                      IF Eml(ev'.q) = <<>> THEN last_name_by_email
                      ELSE DictPut(last_name_by_email, Eml(ev'.q), RawName(ev'.q))
           ELSE UNCHANGED nameVars
        /\ \A k \in DOMAIN last_name_by_id' : ~_is_poor_name(last_name_by_id'[k])
        /\ \A k \in DOMAIN last_name_by_email' : ~_is_poor_name(last_name_by_email'[k])]_vars

\* a poor name was replaced by the name remembered for the vehicle-id although
\* another name is remembered for the e-mail
C14_Witness ==
    /\ Parsed(ev) /\ _is_poor_name(RawName(ev.q)) /\ ParseCanonical(ev) = <<>>
    /\ VehicleId(ev.q) \in DOMAIN last_name_by_id
    /\ Eml(ev.q) \in DOMAIN last_name_by_email
    /\ last_name_by_id[VehicleId(ev.q)] # last_name_by_email[Eml(ev.q)]
    /\ ev.session.profile.Name = last_name_by_id[VehicleId(ev.q)]

\* C15: with a canonical identity (a name-map hit, or the VIN in vin mode) the
\* profile id of the session is the slug of the canonical identity, whatever the
\* e-mail, the vehicle-id, the session id and the raw name
C15_CanonicalIdAlone ==
    (Parsed(ev) /\ ParseCanonical(ev) # <<>>)
        => ev.session.profile.Id = slugify(ParseCanonical(ev))

\* a frame with e-mail, vehicle-id and usable name got the slug of its VIN
C15_Witness ==
    /\ Parsed(ev) /\ ParseCanonical(ev) = Vin1
    /\ Eml(ev.q) # <<>> /\ VehicleId(ev.q) # <<>> /\ ~_is_poor_name(RawName(ev.q))
    /\ ev.session.profile.Id = <<"v", "1">>

\* a session with a usable display name, no canonical identity and no vehicle-id
NamedOnly(e) ==
    /\ Parsed(e) /\ ParseCanonical(e) = <<>> /\ VehicleId(e.q) = <<>>
    /\ ~_is_poor_name(e.session.profile.Name)

\* C16 as stated: with a usable display name, no canonical identity and no
\* vehicle-id the profile id carries no e-mail salt
C16_NoSaltWithoutVehicleId ==
    NamedOnly(ev) => ev.session.profile.Id = slugify(ev.session.profile.Name)

\* C16 amended: with a usable display name, no canonical identity and no
\* vehicle-id the profile id is the slug of the display name, followed by "_"
\* and the salt of the e-mail when the frame has an e-mail
C16_SaltFollowsEmail ==
    NamedOnly(ev) =>
        ev.session.profile.Id =
            slugify(ev.session.profile.Name)
            \o (IF Eml(ev.q) # <<>> THEN <<"_">> \o Sha1Hex4(Eml(ev.q)) ELSE <<>>)

\* a named frame with e-mail and without vehicle-id got a salted id
C16_Witness ==
    /\ NamedOnly(ev) /\ Eml(ev.q) = EmailA /\ RawName(ev.q) = NameBob
    /\ ev.session.profile.Id = <<"b", "o", "b", "_", "e", "f", "f", "5">>

\* C17: an accepted frame with no canonical identity, an empty or poor name and
\* no remembered name has the vehicle-id plus the e-mail salt as profile id if
\* it has a vehicle-id, and veh_ plus the first 6 characters of the session id
\* otherwise
C17_NamelessId ==
    (/\ Parsed(ev) /\ ParseCanonical(ev) = <<>>
     /\ _is_poor_name(RawName(ev.q))
     /\ VehicleId(ev.q) \notin DOMAIN last_name_by_id
     /\ Eml(ev.q) \notin DOMAIN last_name_by_email)
        => ev.session.profile.Id =
              IF VehicleId(ev.q) # <<>>
              THEN VehicleId(ev.q)
                   \o (IF Eml(ev.q) # <<>> THEN <<"_">> \o Sha1Hex4(Eml(ev.q)) ELSE <<>>)
              ELSE <<"v", "e", "h", "_">> \o Take(Strip(ev.q.session), 6)

-----------------------------------------------------------------------------
(* What the registry answers *)

Keys == Signals \cup {OBD_GPS_LAT, OBD_GPS_LON}

\* what get_value must answer for a key after the frame q was published
ValueOf(q, key) ==
    IF key \notin DOMAIN DecodeValues(q) \/ _is_non_finite(DecodeValues(q)[key]) THEN NullVal
    ELSE DecodeValues(q)[key]

\* the last operation ran update_from_session for the vehicle car_id of entry e
UpdatedCar(e, car_id) == ev.published /\ ev.entry = e /\ ev.car_id = car_id

\* C18: after update_from_session, get_value and get_meta of the vehicle answer
\* from the published frame alone, a key the frame lacks reads as null, and the
\* answers for a vehicle stay the same until its next update_from_session or
\* until it is forgotten
C18_LastWriteWins ==
    [][\A e \in Entries : \A car_id \in CarIds(cars'[e]) :
          IF UpdatedCar(e, car_id)'
          THEN /\ \A key \in Keys :
                    get_value(cars'[e], car_id, key) = ValueOf(ev'.q, key)
               /\ get_meta(cars'[e], car_id) = DecodeMeta(ev'.q)
          ELSE /\ car_id \in CarIds(cars[e])
               /\ \A key \in Keys :
                    get_value(cars'[e], car_id, key) = get_value(cars[e], car_id, key)
               /\ get_meta(cars'[e], car_id) = get_meta(cars[e], car_id)]_vars

\* a vehicle that had a GPS fix has just been updated by a frame without one,
\* and its latitude reads as null
C18_Witness ==
    /\ ev.published
    /\ ~HasGps(ev.session)
    /\ TrackedKey(ev.car_id, ENTITY_GPS) \in tracked[ev.entry]
    /\ get_value(cars[ev.entry], ev.car_id, Rpm) = NumVal(2500)
    /\ get_value(cars[ev.entry], ev.car_id, OBD_GPS_LAT) = NullVal

-----------------------------------------------------------------------------
(* Non-finite readings: one route, frames whose engine reading is a number   *)
(* or a non-finite literal, under two session ids, while the clock advances  *)

\* raw tokens that float() reads as a non-finite number
NonFiniteTokens == {"NaN", "inf", "-infinity"}

ValueFrame(sid, tok) == [Req(<<>>, sid, IdA, NameBob) EXCEPT !.k = [c \in {"0c"} |-> tok]]

ValueRequests == {ValueFrame(sid, tok) : sid \in {Sid1, Sid2}, tok \in {"2500"} \cup NonFiniteTokens}

InitValues ==
    /\ Constructed(2, 2)
    /\ Configured(<< <<"e1", Cfg(<<>>, MERGE_MODE_NONE, <<>>, FALSE, FALSE)>> >>)

NextValues ==
    \/ \E q \in ValueRequests : Get(q, NoFaults)
    \/ SetSensorAdder("e1", NoFaults)
    \/ ForgetVehicle("e1", CarA)
    \/ Tick

SpecValues == InitValues /\ [][NextValues]_vars

\* the cached session of that id
Cached(cache, id) ==
    IF id \in CacheIds(cache)
    THEN cache[CHOOSE i \in 1..Len(cache) : cache[i].id = id]
    ELSE NoSession

\* the last operation was a request whose engine reading is a non-finite literal
NonFiniteReading ==
    /\ ev.kind = "get" /\ ev.status = 200
    /\ DictGet(ev.q.k, "0c", "") \in NonFiniteTokens

\* C19: a frame whose engine reading is a non-finite literal is accepted, and
\* the reading is null in the session the cache holds and in the registry
C19_NonFiniteStoredNull ==
    NonFiniteReading =>
        /\ ev.published
        /\ DictGet(Cached(sessions, ev.stored.id).values, Rpm, StrVal("absent")) = NullVal
        /\ DictGet(CarSession(cars[ev.entry], ev.car_id).values, Rpm, StrVal("absent")) = NullVal

\* the step stored session s in the cache
StoredNow(s) == ev'.kind \in {"get", "post"} /\ ev'.text = "OK!" /\ ev'.stored.id = s.id

\* C20: a session of the cache is the session as it was stored, until it is
\* stored again or evicted: no step, the registry publish included, changes it
C20_CachedSessionFrozen ==
    [][\A i \in 1..Len(sessions') :
          IF StoredNow(sessions'[i])
          THEN sessions'[i] = ev'.stored
          ELSE \E j \in 1..Len(sessions) : sessions[j] = sessions'[i]]_vars

-----------------------------------------------------------------------------
(* Session ids and vehicles *)

\* the vehicle records of all registries, as <<entry, car_id, session id>>
VehicleRecords ==
    UNION {{<<e, cars[e][i].car_id, cars[e][i].session.id>> : i \in 1..Len(cars[e])} :
              e \in Entries}

\* C21: no two vehicle records of distinct car_id, in one registry or across
\* registries, hold sessions with the same session id (a forgotten vehicle has
\* no record)
C21_SessionIdOneVehicle ==
    \A x, y \in VehicleRecords : x[2] # y[2] => x[3] # y[3]

-----------------------------------------------------------------------------
(* Concurrent requests of one session: GET and POST frames of the session s1 *)
(* with two different readings; a POST waits for its body while other        *)
(* requests arrive and complete                                               *)

PostRequests == {ValueFrame(Sid1, tok) : tok \in {"2500", "91"}}

NextPost ==
    \/ \E q \in PostRequests : Get(q, NoFaults)
    \/ \E q \in PostRequests : PostBegin(q)
    \/ \E q \in PostRequests : PostFinish(q, NoFaults)
    \/ Tick

SpecPost == InitValues /\ [][NextPost]_vars

\* the step applies (cache upsert and registry publish) the request that arrived
\* last: a GET, which arrives and is applied in one step, or the POST whose
\* arrival was the previous step
AppliesLatestArrival ==
    /\ ev'.text = "OK!"
    /\ \/ ev'.kind = "get"
       \/ ev'.kind = "post" /\ ev.kind = "post_begin" /\ ev.q = ev'.q

\* C22: requests of one session id are applied in their order of arrival: when
\* the request that arrived last is applied, no request of the same session id
\* that arrived before it is still waiting to be applied
C22_ArrivalOrder ==
    [][AppliesLatestArrival =>
          \A q1 \in inflight' : q1.session # ev'.q.session]_vars

-----------------------------------------------------------------------------
(* Downstream faults: one route without e-mail, one vehicle with and without *)
(* a GPS fix; during update_from_session the per-signal callback, the        *)
(* tracker callback (at either call site) or the device-registry update      *)
(* raises                                                                     *)

\* the device-registry update of the vehicle raises
DeviceFails == [NoFaults EXCEPT !.dev = {CarA}]

\* the tracker-creation callback raises wherever it is called from
TrackerAlwaysFails == [NoFaults EXCEPT !.trk = TRUE, !.trkAll = TRUE]

FaultKinds ==
    {NoFaults, SensorFails, TrackerFails, BackfillFails, DeviceFails, TrackerAlwaysFails}

FaultRequests == {Frame(IdA, FALSE), Frame(IdA, TRUE)}

NextFaults ==
    \/ \E q \in FaultRequests, f \in FaultKinds : Get(q, f)
    \/ SetSensorAdder("e1", NoFaults)
    \/ SetDeviceTrackerAdder("e1", NoFaults)
    \/ ForgetVehicle("e1", CarA)
    \/ Tick

SpecFaults == InitCoord /\ [][NextFaults]_vars

\* C23: whatever raises during update_from_session, the request is answered
\* "OK!" and the registry's session of the vehicle is the session of that
\* request (every request here is a valid frame of the route e1)
C23_FaultKeepsUpdate ==
    ev.kind = "get" =>
        /\ ev.status = 200 /\ ev.text = "OK!"
        /\ CarA \in CarIds(cars["e1"])
        /\ CarSession(cars["e1"], CarA).id = ev.q.session
        /\ CarSession(cars["e1"], CarA).last_seen = now
        /\ CarSession(cars["e1"], CarA).values = DecodeValues(ev.q)
        /\ CarSession(cars["e1"], CarA).meta = DecodeMeta(ev.q)

\* the device-registry update raised during the update of a vehicle that had an
\* older session, after a per-signal callback had failed for it
C23_Witness ==
    /\ ev.kind = "get" /\ ev.raised
    /\ now > 0
    /\ Counted("e1", CarA, Rpm).inv > Counted("e1", CarA, Rpm).ok

\* the per-signal creation callback has failed for the pair p of entry e since
\* the vehicle was last forgotten
SensorFailed(e, p) ==
    p \in DOMAIN calls[e] /\ p[2] # ENTITY_GPS /\ calls[e][p].inv > calls[e][p].ok

\* C24: once the per-signal creation callback has failed for a (vehicle,
\* signal) pair, the sessions that arrive later for that vehicle do not invoke
\* the callback for that pair again
C24_NoSensorRetry ==
    [][\A e \in Entries : \A p \in DOMAIN calls[e] :
          (SensorFailed(e, p) /\ ev'.published /\ ev'.entry = e)
              => \A x \in ev'.scalls : <<x[1], x[2]>> # p]_vars

-----------------------------------------------------------------------------
(* Deferred tracker creation: the registry of SpecCoord, where the tracker   *)
(* platform does come up: set_device_tracker_adder is eventually called.     *)
(* Nothing obliges a client to send another frame.                           *)

SpecCoordFair == SpecCoord /\ WF_vars(SetDeviceTrackerAdder("e1", NoFaults))

\* a session with a GPS fix has just arrived for the vehicle while no tracker
\* creator is registered
GpsWaiting(car_id) ==
    /\ ev.published /\ ev.entry = "e1" /\ ev.car_id = car_id
    /\ HasGps(ev.stored)
    /\ ~tracker_adder["e1"]

TrackerInvoked(car_id) == Counted("e1", car_id, ENTITY_GPS).inv > 0

Forgotten(car_id) == ev.kind = "forget_vehicle" /\ ev.car_id = car_id

\* C25: a vehicle whose GPS fix arrived while no tracker creator was registered
\* gets its tracker-creation callback invoked once the creator has registered,
\* unless it is forgotten, whatever sessions arrive for it in between
C25_DeferredTrackerCreated ==
    \A car_id \in {CarA, CarAX} :
        GpsWaiting(car_id) ~> (TrackerInvoked(car_id) \/ Forgotten(car_id))

-----------------------------------------------------------------------------
(* Backfill *)

\* the (vehicle, signal) pairs of the stored sessions of entry e that are
\* creatable and not tracked
UntrackedSensors(e) ==
    UNION {{<<car_id, sh>> : sh \in {x \in CreatableShorts(CarSession(cars[e], car_id)) :
                                        TrackedKey(car_id, x) \notin tracked[e]}} :
              car_id \in CarIds(cars[e])}

\* the vehicles of entry e stored with both coordinates whose tracker is not
\* tracked
UntrackedTrackers(e) ==
    {car_id \in CarIds(cars[e]) :
        HasGps(CarSession(cars[e], car_id)) /\ TrackedKey(car_id, ENTITY_GPS) \notin tracked[e]}

\* C26: set_sensor_adder invokes the creation callback for exactly the
\* creatable (vehicle, signal) pairs of the stored sessions that are not yet
\* tracked, and set_device_tracker_adder invokes the tracker callback for
\* exactly the vehicles stored with both GPS coordinates whose tracker is not
\* yet tracked
C26_BackfillReplays ==
    [][/\ ev'.kind = "set_sensor_adder"
            => {<<x[1], x[2]>> : x \in ev'.scalls} = UntrackedSensors(ev'.entry)
       /\ ev'.kind = "set_device_tracker_adder"
            => {x[1] : x \in ev'.tcalls} = UntrackedTrackers(ev'.entry)]_vars

\* set_sensor_adder has just invoked the callback for one stored vehicle and
\* not for another whose signal was already tracked
C26_Witness ==
    /\ ev.kind = "set_sensor_adder"
    /\ ev.scalls # {}
    /\ \E car_id \in CarIds(cars[ev.entry]) :
           /\ Rpm \in CreatableShorts(CarSession(cars[ev.entry], car_id))
           /\ \A x \in ev.scalls : x[1] # car_id

-----------------------------------------------------------------------------
(* Creatable signals: one vehicle with a GPS fix whose frames carry one code *)
(* of the catalog, or all of them                                            *)

SignalFrame(codes) == [Frame(IdA, TRUE) EXCEPT !.k = [c \in codes |-> "2500"]]

SignalRequests == {SignalFrame({c}) : c \in DOMAIN OBD_CODES} \cup {SignalFrame(DOMAIN OBD_CODES)}

NextSignals ==
    \/ \E q \in SignalRequests : Get(q, NoFaults)
    \/ SetSensorAdder("e1", NoFaults)
    \/ ForgetVehicle("e1", CarA)
    \/ Tick

SpecSignals == InitCoord /\ [][NextSignals]_vars

\* a label that ends in status, state or mode
StatusLabel(name) ==
    \E w \in {<<"s", "t", "a", "t", "u", "s">>, <<"s", "t", "a", "t", "e">>, <<"m", "o", "d", "e">>} :
        EndsWith(Lower(name), w)

FuelStatus == OBD_CODES["fs"].shortName

\* C27: the per-signal creation callback is not invoked for the raw latitude
\* or longitude, for a signal whose label is its short key, or for a signal
\* without unit whose label is no status, state or mode label; the signal
\* without unit whose label ends in "Status" is created
C27_CreatableFilter ==
    /\ \A x \in ev.scalls :
          LET meta == get_meta(cars[ev.entry], x[1])[x[2]]
          IN  /\ x[2] \notin {OBD_GPS_LAT, OBD_GPS_LON}
              /\ meta.name # x[2]
              /\ meta.unit = "" => StatusLabel(meta.name)
    /\ (ev.published /\ sensor_adder[ev.entry] /\ "fs" \in DOMAIN ev.q.k)
          => /\ Counted(ev.entry, ev.car_id, FuelStatus).inv > 0
             /\ TrackedKey(ev.car_id, FuelStatus) \in tracked[ev.entry]

\* a frame with every code of the catalog and a GPS fix has just created the
\* fuel status signal
C27_Witness ==
    /\ ev.published
    /\ DOMAIN ev.q.k = DOMAIN OBD_CODES
    /\ HasGps(ev.session)
    /\ \E x \in ev.scalls : x[2] = FuelStatus /\ x[3]

-----------------------------------------------------------------------------
(* Device names: one route without e-mail that accepts poor names; the       *)
(* vehicle "bob" is fed by a frame named Bob without vehicle id and by       *)
(* frames of vehicle id "bob" with poor names                                *)

IdBob == <<"b", "o", "b">>

DeviceRequests ==
    {Req(<<>>, sid, <<>>, NameBob) : sid \in {Sid1, Sid2}}
        \cup {Req(<<>>, sid, IdBob, name) : sid \in {Sid1, Sid2}, name \in {NamePoor, WordVehicle}}

NextDevice ==
    \/ \E q \in DeviceRequests : Get(q, NoFaults)
    \/ ForgetVehicle("e1", IdBob)
    \/ Tick

SpecDevice == InitCoord /\ [][NextDevice]_vars

DeviceName(devs, car_id) == DictGet(devs, car_id, <<>>)

\* C28: when the device of a vehicle has a good name, an update_from_session
\* of that vehicle whose display name is poor (empty, "vehicle", "vehicule" or
\* "vehicle" followed by digits) leaves the device name as it is
C28_GoodNameKept ==
    [][(/\ ev'.published /\ ~ev'.raised
        /\ ~_is_poor_name(DeviceName(devices, ev'.car_id))
        /\ _is_poor_name(ev'.stored.profile.Name))
          => DeviceName(devices', ev'.car_id) = DeviceName(devices, ev'.car_id)]_vars

-----------------------------------------------------------------------------
(* Order of the session cache *)

\* the cached sessions other than the session of that id, in cache order
Others(cache, id) == SelectSeq(cache, LAMBDA x : x.id # id)

\* C29: the entries an eviction step removes are the least recently touched:
\* each entry that stays sits nearer the most-recent end and was seen no
\* earlier than each entry that goes; a stored session, new or uploaded again,
\* goes to the most-recent end and the other entries keep their order
C29_EvictsLeastRecent ==
    [][/\ \A i, j \in 1..Len(sessions) :
             (sessions[i].id \in ev'.evicted /\ sessions[j].id \notin ev'.evicted)
                 => (i < j /\ sessions[i].last_seen <= sessions[j].last_seen)
       /\ (ev'.kind \in {"get", "post"} /\ ev'.text = "OK!")
             => /\ sessions'[Len(sessions')].id = ev'.stored.id
                /\ Others(sessions', ev'.stored.id)
                      = SelectSeq(Others(sessions, ev'.stored.id),
                                  LAMBDA x : x.id \notin ev'.evicted)]_vars

\* a request has evicted the least recently touched session and kept another:
\* the cache held two sessions, the older went, and the request stored a session
C29_Witness ==
    /\ ev.kind = "get" /\ ev.text = "OK!"
    /\ ev.evicted # {}
    /\ Len(sessions) = 2

\* the cache after the eviction step of a request arriving now
AfterEviction == _cleanup_sessions(sessions, now, ttl_seconds, max_sessions)

\* C30: from the least recently touched end the cache is non-decreasing in
\* last_seen, and the eviction step of a request leaves no entry last seen at or
\* before now - ttl_seconds and at most max_sessions entries
C30_OrderedByLastSeen ==
    /\ \A i, j \in 1..Len(sessions) : i < j => sessions[i].last_seen <= sessions[j].last_seen
    /\ Len(AfterEviction) <= max_sessions
    /\ \A i \in 1..Len(AfterEviction) : AfterEviction[i].last_seen > now - ttl_seconds

\* the eviction step of a POST has just removed an expired session and stopped
\* at a session still within the TTL
C30_Witness ==
    /\ ev.kind = "post_begin"
    /\ ev.evicted # {}
    /\ max_sessions >= 2
    /\ Len(sessions) = 1
    /\ sessions[1].last_seen > now - ttl_seconds

-----------------------------------------------------------------------------
(* Retry of a failed tracker creation *)

\* every invocation of the tracker-creation callback the step made for the
\* vehicle raised, and there was one
TrackerRaised(car_id) ==
    /\ \E x \in ev'.tcalls : x[1] = car_id
    /\ \A x \in ev'.tcalls : x[1] = car_id => ~x[3]

\* the callback was invoked for the vehicle and has not returned normally yet
TrackerOwed(car_id) ==
    Counted("e1", car_id, ENTITY_GPS).inv > 0 /\ Counted("e1", car_id, ENTITY_GPS).ok = 0

\* C31: when the tracker-creation callback raises for a vehicle, the vehicle
\* is not marked as tracked, and as long as no attempt has succeeded the next
\* session with a GPS fix of that vehicle invokes the callback again
C31_TrackerRetried ==
    [][/\ TrackerRaised(CarA) => TrackedKey(CarA, ENTITY_GPS) \notin tracked'["e1"]
       /\ (/\ TrackerOwed(CarA)
           /\ ev'.published /\ ev'.car_id = CarA /\ ~ev'.raised
           /\ HasGps(ev'.stored) /\ tracker_adder["e1"])
             => \E x \in ev'.tcalls : x[1] = CarA]_vars

-----------------------------------------------------------------------------
(* forget_vehicle and the other vehicles *)

\* the tracked signals of a vehicle
TrackedSignals(trk, car_id) == {sh \in Signals : TrackedKey(car_id, sh) \in trk}

\* C32: forget_vehicle(car_id) leaves the stored session and the tracked
\* markers of every other vehicle as they were
C32_ForgetOnlyThatVehicle ==
    [][ev'.kind = "forget_vehicle"
          => \A other \in {CarA, CarAX} \ {ev'.car_id} :
                /\ (other \in CarIds(cars'[ev'.entry])) = (other \in CarIds(cars[ev'.entry]))
                /\ CarSession(cars'[ev'.entry], other) = CarSession(cars[ev'.entry], other)
                /\ TrackedSignals(tracked'[ev'.entry], other)
                      = TrackedSignals(tracked[ev'.entry], other)]_vars

-----------------------------------------------------------------------------
(* The id of a poor-named frame *)

\* frames of one vehicle-id with a usable or a poor name, with and without e-mail
PoorInputs ==
    {<<Req(eml, Sid1, IdLong, name), PlainArgs(TRUE)>> :
        eml \in {<<>>, EmailA, EmailB}, name \in {NameBob, NameAnn, NamePoor}}

NextPoor == \E x \in PoorInputs : ParseFieldsNoted(x[1], x[2])

SpecPoor == InitParse /\ [][NextPoor]_vars

\* C33: with merge_mode none, a frame with a poor name, vehicle-id V and e-mail E
\* that comes after an accepted frame with a usable name for V (and E) is
\* accepted and gets the profile id of the most recent such frame
C33_PoorFrameKeepsId ==
    [][(/\ ev'.kind = "parse" /\ ev'.arg.merge_mode = MERGE_MODE_NONE
        /\ ParseCanonical(ev') = <<>>
        /\ _is_poor_name(RawName(ev'.q))
        /\ <<VehicleId(ev'.q), Eml(ev'.q)>> \in DOMAIN good_id)
          => /\ Parsed(ev')
             /\ ev'.session.profile.Id = good_id[<<VehicleId(ev'.q), Eml(ev'.q)>>]]_vars

-----------------------------------------------------------------------------
(* The e-mail index while entries are reconfigured *)

\* an entry is set up with no e-mail or with one of two, which the other entry
\* may use too
IndexConfigs ==
    {Cfg(email, MERGE_MODE_NONE, <<>>, TRUE, FALSE) : email \in {<<>>, EmailA, EmailB}}

IndexRequests == {Req(eml, Sid1, <<>>, NameBob) : eml \in {EmailA, EmailB}}

NextIndex ==
    \/ \E e \in Entries : \E cfg \in IndexConfigs : UpsertRoute(e, cfg)
    \/ \E e \in Entries : RemoveRoute(e)
    \/ \E q \in IndexRequests : Get(q, NoFaults)

SpecIndex == InitOwner /\ [][NextIndex]_vars

\* C34: after any sequence of upsert_route and remove_route calls
\* every configured route with an e-mail is reachable: _pick_route, given that
\* e-mail, answers a configured route whose e-mail equals it
C34_RouteReachable ==
    \A i \in 1..Len(entry_routes) :
        entry_routes[i].email # <<>> =>
            LET r == _pick_route(entry_routes, email_to_entry, entry_routes[i].email)
            IN  /\ r.entry_id \in RouteIds(entry_routes)
                /\ r.email = entry_routes[i].email

-----------------------------------------------------------------------------
(* Owners of canonical names are configured routes *)

\* C35: every owner recorded in the ownership cache of canonical names is the
\* entry id of a route that is configured now
C35_OwnersConfigured ==
    \A c \in DOMAIN canonical_to_entry : canonical_to_entry[c] \in RouteIds(entry_routes)

\* a route was just removed while the other one owns a canonical name
C35_Witness ==
    /\ ev.kind = "remove_route"
    /\ ev.entry \notin RouteIds(entry_routes)
    /\ entry_routes # <<>>
    /\ NameRob \in DOMAIN canonical_to_entry

-----------------------------------------------------------------------------
(* What an ignored request leaves behind *)

\* frames with and without a session id, with a name the map knows or a poor one
SessionlessRequests ==
    {Req(EmailA, sid, <<>>, name) : sid \in {<<>>, Sid1}, name \in {NameBob, NamePoor}}

NextIgnored ==
    \/ \E e \in Entries : \E cfg \in OwnerConfigs(e) : UpsertRoute(e, cfg)
    \/ \E e \in Entries : RemoveRoute(e)
    \/ \E q \in SessionlessRequests : Get(q, NoFaults)

SpecIgnored == InitOwner /\ [][NextIgnored]_vars

\* C36: a request answered "IGNORED" changes nothing of the handler's state but
\* the sessions it evicts: the ownership cache and the remembered names are as
\* before, no session is stored and nothing reaches a coordinator
C36_IgnoredChangesNothing ==
    [][(ev'.kind \in {"get", "post"} /\ ev'.status = 200 /\ ev'.text = "IGNORED")
          => /\ canonical_to_entry' = canonical_to_entry
             /\ last_name_by_id' = last_name_by_id
             /\ last_name_by_email' = last_name_by_email
             /\ CacheIds(sessions') \subseteq CacheIds(sessions)
             /\ UNCHANGED <<active, ttl_seconds, max_sessions, entry_routes, email_to_entry,
                            coordVars>>]_vars

-----------------------------------------------------------------------------
(* Remembered names and routes *)

\* two entries without merging, each with its e-mail; their uploaders report the
\* same vehicle-id
NameRequests ==
    {Req(eml, Sid1, IdLong, name) : eml \in {EmailA, EmailB},
                                    name \in {NameBob, NameAnn, NamePoor}}

InitNames ==
    /\ Constructed(2, 2)
    /\ Configured(<< <<"e1", Cfg(EmailA, MERGE_MODE_NONE, <<>>, TRUE, FALSE)>>,
                     <<"e2", Cfg(EmailB, MERGE_MODE_NONE, <<>>, TRUE, FALSE)>> >>)

NextNames == \E q \in NameRequests : Get(q, NoFaults)

SpecNames == InitNames /\ [][NextNames]_vars

\* C37: an accepted frame with a poor name carries a display name that a frame
\* attributed to the same route brought before it (that route's coordinator holds
\* a vehicle of that name); frames of another route do not name it
C37_NameFromSameRoute ==
    [][(/\ Accepted(ev') /\ ev'.route \in Entries
        /\ _is_poor_name(RawName(ev'.q)))
          => \E i \in 1..Len(cars[ev'.route]) :
                 cars[ev'.route][i].session.profile.Name = ev'.stored.profile.Name]_vars

-----------------------------------------------------------------------------
(* The size of the session cache under concurrent POSTs; the limits stay as *)
(* constructed *)

BurstRequests == {Req(EmailA, sid, <<>>, NameBob) : sid \in {Sid1, Sid2, SidDigits}}

NextBurst ==
    \/ \E q \in BurstRequests : Get(q, NoFaults)
    \/ \E q \in BurstRequests : PostBegin(q)
    \/ \E q \in BurstRequests : PostFinish(q, NoFaults)
    \/ Tick

SpecBurst == InitCache /\ [][NextBurst]_vars

\* C38: with the limits held constant the session cache never holds more than
\* max_sessions + 1 entries, also while POST requests wait for their bodies
C38_CacheWithinMaxPlusOne == Len(sessions) <= max_sessions + 1

-----------------------------------------------------------------------------
(* The limits of the session cache, from construction on *)

\* the defaults of const.py, on the scale of the model's clock
SESSION_TTL_SECONDS == 2

MAX_SESSIONS == 2

\* int(x or DEFAULT) of __init__: None and 0 give the default, any other integer
\* is kept
InitLimit(arg, default) == IF ~arg.given \/ arg.v = 0 THEN default ELSE arg.v

\* what async_setup_entry hands over from the options of the first entry: any
\* integer for the ttl; the size limit is drawn from the values that pass
\* unchanged through every path
ConstructorArgs ==
    {<<t, m>> : t \in {NoArg, Arg(-1), Arg(0), Arg(1)}, m \in {NoArg, Arg(0), Arg(1)}}

LimitsArgs == LimitArgs \cup {<<Arg(-1), Arg(-1)>>}

InitLimits ==
    /\ \E a \in ConstructorArgs :
           Constructed(InitLimit(a[1], SESSION_TTL_SECONDS), InitLimit(a[2], MAX_SESSIONS))
    /\ Configured(<< <<"e1", Cfg(EmailA, MERGE_MODE_NONE, <<>>, TRUE, FALSE)>> >>)

NextLimits ==
    \/ \E a \in LimitsArgs : SetSessionLimits(a[1], a[2])
    \/ \E q \in CacheRequests : Get(q, NoFaults)
    \/ Tick

SpecLimits == InitLimits /\ [][NextLimits]_vars

\* C39: the effective ttl_seconds and max_sessions are strictly positive in every
\* reachable state, whatever the constructor and set_session_limits are given
C39_LimitsPositive == ttl_seconds > 0 /\ max_sessions > 0

-----------------------------------------------------------------------------
(* Deactivation while entries are set up and removed *)

ActiveRequests == {Req(EmailA, Sid1, <<>>, NameBob)}

NextActive ==
    \/ \E b \in BOOLEAN : SetActive(b)
    \/ \E e \in Entries : \E cfg \in OwnerConfigs(e) : UpsertRoute(e, cfg)
    \/ \E e \in Entries : RemoveRoute(e)
    \/ \E q \in ActiveRequests : Get(q, NoFaults)
    \/ \E q \in ActiveRequests : PostBegin(q)
    \/ \E q \in ActiveRequests : PostFinish(q, NoFaults)

SpecActive == InitOwner /\ [][NextActive]_vars

\* C40: after set_active(False) the view stays inactive, GET and POST answering
\* 404, until set_active(True): an upsert_route or remove_route on a view that
\* was deactivated while it has routes leaves it inactive (a view with routes is
\* inactive only through set_active(False))
C40_InactiveUntilSetActive ==
    [][(/\ ~active /\ entry_routes # <<>>
        /\ ev'.kind \in {"upsert_route", "remove_route"})
          => ~active']_vars

====
